---- MODULE Spec2Model ----
(***************************************************************************)
(* A model of the message layer of webdriver-rust: the parameter decoders  *)
(* and the action-chain decoder/encoder of command.rs, the primitives of   *)
(* common.rs and the response encoder of response.rs.                      *)
(*                                                                         *)
(* Every operation of the layer is a pure function of its input, so the    *)
(* state machine is: pick an operation and an input (op = "idle"), apply   *)
(* the operation, record the input and the result.                         *)
(***************************************************************************)
EXTENDS Integers, Sequences, FiniteSets, TLC

VARIABLES op, input, output

vars == <<op, input, output>>

----------------------------------------------------------------------------
(* serde_json::Value.  A number is an integer (serde's PosInt / NegInt) or *)
(* a float; JFloat(n) stands for the float n.0.                            *)

JNull == [t |-> "null"]

JBool(b) == [t |-> "bool", b |-> b]

JInt(n) == [t |-> "num", k |-> "int", n |-> n]

JFloat(n) == [t |-> "num", k |-> "float", n |-> n]

JStr(s) == [t |-> "str", s |-> s]

JArr(a) == [t |-> "arr", a |-> a]

JObj(o) == [t |-> "obj", o |-> o]

EmptyMap == << >>

is_object(v) == v.t = "obj"

is_string(v) == v.t = "str"

is_array(v) == v.t = "arr"

is_bool(v) == v.t = "bool"

is_number(v) == v.t = "num"

\* Number::as_u64 is Some exactly for a non-negative integer.
is_u64(v) == v.t = "num" /\ v.k = "int" /\ v.n >= 0

\* Number::as_i64 is Some exactly for an integer (of the i64 range).
is_i64(v) == v.t = "num" /\ v.k = "int"

\* Value::get / Map::get: the key is looked up in an object only.
has(v, key) == v.t = "obj" /\ key \in DOMAIN v.o

get(v, key) == v.o[key]

\* A map of one entry.
entry(key, val) == [x \in {key} |-> val]

\* Map::insert on a map that does not hold the key yet, or does.
insert(m, key, val) == [x \in (DOMAIN m) \cup {key} |-> IF x = key THEN val ELSE m[x]]

----------------------------------------------------------------------------
(* Option and WebDriverResult.                                             *)

None == [some |-> FALSE]

Some(x) == [some |-> TRUE, v |-> x]

Ok(x) == [ok |-> TRUE, val |-> x]

Err(status, message) == [ok |-> FALSE, status |-> status, msg |-> message]

\* try!(expr): an error returns at once, a value goes on to the rest.
try(r, rest(_)) == IF r.ok THEN rest(r.val) ELSE r

\* The message of an error contains the text x.
Mentions(msg, x) ==
    \E i \in 1..(Len(msg) - Len(x) + 1) : SubSeq(msg, i, i + Len(x) - 1) = x

----------------------------------------------------------------------------
(* common.rs                                                               *)

ELEMENT_KEY == "element-6066-11e4-a52e-4f735466cecf"

WebElement_new(id) == [id |-> id]

WebElement_from_json(data) ==
    IF ~is_object(data)
    THEN Err("InvalidArgument", "Could not convert webelement to object")
    ELSE IF ~has(data, ELEMENT_KEY)
    THEN Err("InvalidArgument", "Could not find webelement key")
    ELSE IF ~is_string(get(data, ELEMENT_KEY))
    THEN Err("InvalidArgument", "Could not convert web element to string")
    ELSE Ok(WebElement_new(get(data, ELEMENT_KEY).s))

WebElement_to_value(elem) == JObj(insert(EmptyMap, ELEMENT_KEY, JStr(elem.id)))

U16_MAX == 65535

U16_MIN == 0

FrameId_Short(x) == [frame |-> "Short", x |-> x]

FrameId_Element(e) == [frame |-> "Element", e |-> e]

FrameId_Null == [frame |-> "Null"]

\* from_json without the range check: the cast "x as u16" truncates.
FrameId_from_json_unchecked(data) ==
    IF is_number(data)
    THEN IF ~is_u64(data)
         THEN Err("NoSuchFrame", "frame id out of range")
         ELSE Ok(FrameId_Short(data.n % (U16_MAX + 1)))
    ELSE IF data = JNull
    THEN Ok(FrameId_Null)
    ELSE IF is_object(data)
    THEN try(WebElement_from_json(data), LAMBDA e : Ok(FrameId_Element(e)))
    ELSE Err("NoSuchFrame", "frame id has unexpected type")

FrameId_from_json(data) ==
    IF is_number(data)
    THEN IF ~is_u64(data)
         THEN Err("NoSuchFrame", "frame id out of range")
         ELSE IF data.n > U16_MAX \/ data.n < U16_MIN
         THEN Err("NoSuchFrame", "frame id out of range")
         ELSE Ok(FrameId_Short(data.n % (U16_MAX + 1)))
    ELSE IF data = JNull
    THEN Ok(FrameId_Null)
    ELSE IF is_object(data)
    THEN try(WebElement_from_json(data), LAMBDA e : Ok(FrameId_Element(e)))
    ELSE Err("NoSuchFrame", "frame id has unexpected type")

FrameId_to_value(frame_id) ==
    CASE frame_id.frame = "Short" -> JInt(frame_id.x)
      [] frame_id.frame = "Element" -> JStr(frame_id.e.id)
      [] frame_id.frame = "Null" -> JNull

\* from_json with the arm of "partial link text" giving the strategy of the
\* arm above it.
LocatorStrategy_from_json_repeated_arm(body) ==
    IF ~is_string(body)
    THEN Err("InvalidArgument", "Cound not convert strategy to string")
    ELSE CASE body.s = "css selector" -> Ok("CSSSelector")
           [] body.s = "link text" -> Ok("LinkText")
           [] body.s = "partial link text" -> Ok("LinkText")
           [] body.s = "xpath" -> Ok("XPath")
           [] OTHER -> Err("InvalidArgument", "Unknown locator strategy " \o body.s)

LocatorStrategy_from_json(body) ==
    IF ~is_string(body)
    THEN Err("InvalidArgument", "Cound not convert strategy to string")
    ELSE CASE body.s = "css selector" -> Ok("CSSSelector")
           [] body.s = "link text" -> Ok("LinkText")
           [] body.s = "partial link text" -> Ok("PartialLinkText")
           [] body.s = "xpath" -> Ok("XPath")
           [] OTHER -> Err("InvalidArgument", "Unknown locator strategy " \o body.s)

LocatorStrategy_to_value(strategy) ==
    CASE strategy = "CSSSelector" -> JStr("css selector")
      [] strategy = "LinkText" -> JStr("link text")
      [] strategy = "PartialLinkText" -> JStr("partial link text")
      [] strategy = "XPath" -> JStr("xpath")

----------------------------------------------------------------------------
(* command.rs: the parameter decoders.                                     *)

GetParameters_from_json(body) ==
    IF ~is_object(body)
    THEN Err("UnknownError", "Message body was not an object")
    ELSE IF ~has(body, "url")
    THEN Err("InvalidArgument", "Missing 'url' parameter")
    ELSE IF ~is_string(get(body, "url"))
    THEN Err("InvalidArgument", "'url' not a string")
    ELSE Ok([url |-> get(body, "url").s])

TimeoutsParameters_from_json(body) ==
    IF ~is_object(body)
    THEN Err("UnknownError", "Message body was not an object")
    ELSE LET script ==
                 IF has(body, "script")
                 THEN IF is_u64(get(body, "script"))
                      THEN Ok(Some(get(body, "script").n))
                      ELSE Err("InvalidArgument",
                               "Script timeout duration was not a signed integer")
                 ELSE Ok(None)
             page_load ==
                 IF has(body, "pageLoad")
                 THEN IF is_u64(get(body, "pageLoad"))
                      THEN Ok(Some(get(body, "pageLoad").n))
                      ELSE Err("InvalidArgument",
                               "Page load timeout duration was not a signed integer")
                 ELSE Ok(None)
             implicit ==
                 IF has(body, "implicit")
                 THEN IF is_u64(get(body, "implicit"))
                      THEN Ok(Some(get(body, "implicit").n))
                      ELSE Err("InvalidArgument",
                               "Implicit timeout duration was not a signed integer")
                 ELSE Ok(None)
         IN  IF ~script.ok THEN script
             ELSE IF ~page_load.ok THEN page_load
             ELSE IF ~implicit.ok THEN implicit
             ELSE Ok([script |-> script.val,
                      page_load |-> page_load.val,
                      implicit |-> implicit.val])

WindowRectParameters_from_json(body) ==
    IF ~is_object(body)
    THEN Err("UnknownError", "Message body was not an object")
    ELSE LET x ==
                 IF has(body, "x")
                 THEN IF is_i64(get(body, "x"))
                      THEN Ok(Some(get(body, "x").n))
                      ELSE Err("InvalidArgument", "'x' is not an integer")
                 ELSE Ok(None)
             y ==
                 IF has(body, "y")
                 THEN IF is_i64(get(body, "y"))
                      THEN Ok(Some(get(body, "y").n))
                      ELSE Err("InvalidArgument", "'y' is not an integer")
                 ELSE Ok(None)
             width ==
                 IF has(body, "width")
                 THEN IF is_u64(get(body, "width"))
                      THEN Ok(Some(get(body, "width").n))
                      ELSE Err("InvalidArgument", "'width' is not a positive integer")
                 ELSE Ok(None)
             height ==
                 IF has(body, "height")
                 THEN IF is_u64(get(body, "height"))
                      THEN Ok(Some(get(body, "height").n))
                      ELSE Err("InvalidArgument", "'height' is not a positive integer")
                 ELSE Ok(None)
         IN  IF ~x.ok THEN x
             ELSE IF ~y.ok THEN y
             ELSE IF ~width.ok THEN width
             ELSE IF ~height.ok THEN height
             ELSE Ok([x |-> x.val, y |-> y.val,
                      width |-> width.val, height |-> height.val])

SwitchToWindowParameters_from_json(body) ==
    IF ~is_object(body)
    THEN Err("UnknownError", "Message body was not an object")
    ELSE IF ~has(body, "handle")
    THEN Err("InvalidArgument", "Missing 'handle' parameter")
    ELSE IF ~is_string(get(body, "handle"))
    THEN Err("InvalidArgument", "'handle' not a string")
    ELSE Ok([handle |-> get(body, "handle").s])

LocatorParameters_from_json(body) ==
    IF ~is_object(body)
    THEN Err("UnknownError", "Message body was not an object")
    ELSE IF ~has(body, "using")
    THEN Err("InvalidArgument", "Missing 'using' parameter")
    ELSE LET using == LocatorStrategy_from_json(get(body, "using"))
         IN  IF ~using.ok THEN using
             ELSE IF ~has(body, "value")
             THEN Err("InvalidArgument", "Missing 'value' parameter")
             ELSE IF ~is_string(get(body, "value"))
             THEN Err("InvalidArgument", "Could not convert using to string")
             ELSE Ok([using |-> using.val, value |-> get(body, "value").s])

SwitchToFrameParameters_from_json(body) ==
    IF ~is_object(body)
    THEN Err("UnknownError", "Message body was not an object")
    ELSE IF ~has(body, "id")
    THEN Err("UnknownError", "Missing 'id' parameter")
    ELSE try(FrameId_from_json(get(body, "id")), LAMBDA id : Ok([id |-> id]))

SwitchToFrameParameters_to_value(params) ==
    JObj(insert(EmptyMap, "id", FrameId_to_value(params.id)))

SendKeysParameters_from_json(body) ==
    IF ~is_object(body)
    THEN Err("InvalidArgument", "Message body was not an object")
    ELSE IF ~has(body, "text")
    THEN Err("InvalidArgument", "Missing 'text' parameter")
    ELSE IF ~is_string(get(body, "text"))
    THEN Err("InvalidArgument", "Could not convert 'text' to string")
    ELSE Ok([text |-> get(body, "text").s])

JavascriptCommandParameters_from_json(body) ==
    IF ~is_object(body)
    THEN Err("InvalidArgument", "Message body was not an object")
    ELSE IF ~has(body, "args")
    THEN Err("InvalidArgument", "Missing args parameter")
    ELSE IF ~is_array(get(body, "args"))
    THEN Err("InvalidArgument", "Failed to convert args to Array")
    ELSE IF ~has(body, "script")
    THEN Err("InvalidArgument", "Missing script parameter")
    ELSE IF ~is_string(get(body, "script"))
    THEN Err("InvalidArgument", "Failed to convert script to String")
    ELSE Ok([script |-> get(body, "script").s, args |-> Some(get(body, "args").a)])

GetNamedCookieParameters_from_json(body) ==
    IF ~is_object(body)
    THEN Err("InvalidArgument", "Message body was not an object")
    ELSE IF ~has(body, "name")
    THEN Err("InvalidArgument", "Missing 'name' parameter")
    ELSE IF ~is_string(get(body, "name"))
    THEN Err("InvalidArgument", "Failed to convert name to string")
    ELSE Ok([name |-> Some(get(body, "name").s)])

Date_new(timestamp) == [date |-> timestamp]

\* The reads of the fields of data, the object under "cookie".
AddCookieParameters_fields(data) ==
         LET path ==
                 IF has(data, "path")
                 THEN IF is_string(get(data, "path"))
                      THEN Ok(Some(get(data, "path").s))
                      ELSE Err("InvalidArgument", "Failed to convert path to String")
                 ELSE Ok(None)
             domain ==
                 IF has(data, "domain")
                 THEN IF is_string(get(data, "domain"))
                      THEN Ok(Some(get(data, "domain").s))
                      ELSE Err("InvalidArgument", "Failed to convert domain to String")
                 ELSE Ok(None)
             expiry ==
                 IF has(data, "expiry")
                 THEN IF is_u64(get(data, "expiry"))
                      THEN Ok(Some(Date_new(get(data, "expiry").n)))
                      ELSE Err("InvalidArgument", "Failed to convert expiry to Date")
                 ELSE Ok(None)
             secure ==
                 IF has(data, "secure")
                 THEN IF is_bool(get(data, "secure"))
                      THEN Ok(get(data, "secure").b)
                      ELSE Err("InvalidArgument", "Failed to convert secure to boolean")
                 ELSE Ok(FALSE)
             http_only ==
                 IF has(data, "httpOnly")
                 THEN IF is_bool(get(data, "httpOnly"))
                      THEN Ok(get(data, "httpOnly").b)
                      ELSE Err("InvalidArgument", "Failed to convert httpOnly to boolean")
                 ELSE Ok(FALSE)
         IN  IF ~has(data, "name")
             THEN Err("InvalidArgument", "Missing 'name' parameter")
             ELSE IF ~is_string(get(data, "name"))
             THEN Err("InvalidArgument", "'name' is not a string")
             ELSE IF ~has(data, "value")
             THEN Err("InvalidArgument", "Missing 'value' parameter")
             ELSE IF ~is_string(get(data, "value"))
             THEN Err("InvalidArgument", "'value' is not a string")
             ELSE IF ~path.ok THEN path
             ELSE IF ~domain.ok THEN domain
             ELSE IF ~expiry.ok THEN expiry
             ELSE IF ~secure.ok THEN secure
             ELSE IF ~http_only.ok THEN http_only
             ELSE Ok([name |-> get(data, "name").s,
                      value |-> get(data, "value").s,
                      path |-> path.val,
                      domain |-> domain.val,
                      expiry |-> expiry.val,
                      secure |-> secure.val,
                      httpOnly |-> http_only.val])

\* from_json reading the fields from the body itself.
AddCookieParameters_from_json_flat(body) ==
    IF ~is_object(body)
    THEN Err("InvalidArgument", "Message body was not an object")
    ELSE AddCookieParameters_fields(body)

AddCookieParameters_from_json(body) ==
    IF ~is_object(body)
    THEN Err("InvalidArgument", "Message body was not an object")
    ELSE IF ~(has(body, "cookie") /\ is_object(get(body, "cookie")))
    THEN Err("UnableToSetCookie", "Cookie parameter not found or not an object")
    ELSE AddCookieParameters_fields(get(body, "cookie"))

TakeScreenshotParameters_from_json(body) ==
    IF ~is_object(body)
    THEN Err("InvalidArgument", "Message body was not an object")
    ELSE IF has(body, "element")
    THEN try(WebElement_from_json(get(body, "element")),
             LAMBDA e : Ok([element |-> Some(e)]))
    ELSE Ok([element |-> None])

TakeScreenshotParameters_to_value(params) ==
    JObj(insert(EmptyMap, "element",
                IF params.element.some
                THEN WebElement_to_value(params.element.v)
                ELSE JNull))

----------------------------------------------------------------------------
(* command.rs: the action-chain decoder (manual decoder) and its encoder.  *)

\* A panic (expect / panic!) is not a WebDriverError: it unwinds the caller.
Panic(message) == [ok |-> FALSE, status |-> "PANIC", msg |-> message]

\* body.get(key).and_then(|x| x.as_str()) == Some(str)
get_str_is(body, key, str) == has(body, key) /\ get(body, key) = JStr(str)

\* data.insert(key, val) when the option is Some
insert_some(m, key, opt) == IF opt.some THEN insert(m, key, JInt(opt.v)) ELSE m

PauseAction_from_json(body) ==
    LET duration == IF has(body, "duration") THEN get(body, "duration") ELSE JInt(0)
    IN  IF ~is_u64(duration)
        THEN Err("InvalidArgument", "Parameter 'duration' was not a positive integer")
        ELSE Ok([duration |-> duration.n])

PauseAction_to_value(params) ==
    JObj(insert(insert(EmptyMap, "type", JStr("pause")),
                "duration", JInt(params.duration)))

GeneralAction_from_json(body) ==
    IF get_str_is(body, "type", "pause")
    THEN try(PauseAction_from_json(body),
             LAMBDA p : Ok([general |-> "Pause", pause |-> p]))
    ELSE Err("InvalidArgument", "Invalid or missing type attribute")

GeneralAction_to_value(params) == PauseAction_to_value(params.pause)

\* validate_key_value without the check for a second character.
validate_key_value_first_char(value_str) ==
    IF Len(value_str) = 0
    THEN Err("InvalidArgument", "Parameter 'value' was an empty string")
    ELSE Ok(SubSeq(value_str, 1, 1))

validate_key_value(value_str) ==
    IF Len(value_str) = 0
    THEN Err("InvalidArgument", "Parameter 'value' was an empty string")
    ELSE IF Len(value_str) > 1
    THEN Err("InvalidArgument", "Parameter 'value' contained multiple characters")
    ELSE Ok(SubSeq(value_str, 1, 1))

KeyUpAction_from_json(body) ==
    IF ~has(body, "value")
    THEN Err("InvalidArgument", "Missing value parameter")
    ELSE IF ~is_string(get(body, "value"))
    THEN Err("InvalidArgument", "Parameter 'value' was not a string")
    ELSE try(validate_key_value(get(body, "value").s),
             LAMBDA value : Ok([value |-> value]))

KeyUpAction_to_value(params) ==
    JObj(insert(insert(EmptyMap, "type", JStr("keyUp")),
                "value", JStr(params.value)))

KeyDownAction_from_json(body) ==
    IF ~has(body, "value")
    THEN Err("InvalidArgument", "Missing value parameter")
    ELSE IF ~is_string(get(body, "value"))
    THEN Err("InvalidArgument", "Parameter 'value' was not a string")
    ELSE try(validate_key_value(get(body, "value").s),
             LAMBDA value : Ok([value |-> value]))

KeyDownAction_to_value(params) ==
    JObj(insert(insert(EmptyMap, "type", JStr("keyDown")),
                "value", JStr(params.value)))

KeyAction_from_json(body) ==
    IF get_str_is(body, "type", "keyDown")
    THEN try(KeyDownAction_from_json(body),
             LAMBDA d : Ok([key |-> "Down", down |-> d]))
    ELSE IF get_str_is(body, "type", "keyUp")
    THEN try(KeyUpAction_from_json(body),
             LAMBDA u : Ok([key |-> "Up", up |-> u]))
    ELSE Err("InvalidArgument", "Invalid type attribute value for key action")

KeyAction_to_value(params) ==
    CASE params.key = "Down" -> KeyDownAction_to_value(params.down)
      [] params.key = "Up" -> KeyUpAction_to_value(params.up)

PointerOrigin_Viewport == [origin |-> "Viewport"]

PointerOrigin_Pointer == [origin |-> "Pointer"]

PointerOrigin_Element(e) == [origin |-> "Element", e |-> e]

\* from_json with the object arm left out of the match.
PointerOrigin_from_json_strings_only(body) ==
    IF is_string(body)
    THEN CASE body.s = "viewport" -> Ok(PointerOrigin_Viewport)
           [] body.s = "pointer" -> Ok(PointerOrigin_Pointer)
           [] OTHER -> Err("InvalidArgument", "Unknown pointer origin")
    ELSE Err("InvalidArgument", "Pointer origin was not a string or an object")

PointerOrigin_from_json(body) ==
    IF is_string(body)
    THEN CASE body.s = "viewport" -> Ok(PointerOrigin_Viewport)
           [] body.s = "pointer" -> Ok(PointerOrigin_Pointer)
           [] OTHER -> Err("InvalidArgument", "Unknown pointer origin")
    ELSE IF is_object(body)
    THEN try(WebElement_from_json(body), LAMBDA e : Ok(PointerOrigin_Element(e)))
    ELSE Err("InvalidArgument", "Pointer origin was not a string or an object")

PointerOrigin_to_value(params) ==
    CASE params.origin = "Viewport" -> JStr("viewport")
      [] params.origin = "Pointer" -> JStr("pointer")
      [] params.origin = "Element" -> WebElement_to_value(params.e)

PointerUpAction_from_json(body) ==
    IF ~has(body, "button")
    THEN Err("InvalidArgument", "Missing button parameter")
    ELSE IF ~is_u64(get(body, "button"))
    THEN Err("InvalidArgument", "Parameter 'button' was not a positive integer")
    ELSE Ok([button |-> get(body, "button").n])

PointerUpAction_to_value(params) ==
    JObj(insert(insert(EmptyMap, "type", JStr("pointerUp")),
                "button", JInt(params.button)))

PointerDownAction_from_json(body) ==
    IF ~has(body, "button")
    THEN Err("InvalidArgument", "Missing button parameter")
    ELSE IF ~is_u64(get(body, "button"))
    THEN Err("InvalidArgument", "Parameter 'button' was not a positive integer")
    ELSE Ok([button |-> get(body, "button").n])

PointerDownAction_to_value(params) ==
    JObj(insert(insert(EmptyMap, "type", JStr("pointerDown")),
                "button", JInt(params.button)))

\* from_json with x read the way duration is read.
PointerMoveAction_from_json_unsigned_x(body) ==
    try(IF has(body, "duration")
        THEN IF is_u64(get(body, "duration"))
             THEN Ok(Some(get(body, "duration").n))
             ELSE Err("InvalidArgument", "Parameter 'duration' was not a positive integer")
        ELSE Ok(None),
    LAMBDA duration :
    try(IF has(body, "origin")
        THEN PointerOrigin_from_json(get(body, "origin"))
        ELSE Ok(PointerOrigin_Viewport),
    LAMBDA origin :
    try(IF has(body, "x")
        THEN IF is_u64(get(body, "x"))
             THEN Ok(Some(get(body, "x").n))
             ELSE Err("InvalidArgument", "Parameter 'x' was not an integer")
        ELSE Ok(None),
    LAMBDA x :
    try(IF has(body, "y")
        THEN IF is_i64(get(body, "y"))
             THEN Ok(Some(get(body, "y").n))
             ELSE Err("InvalidArgument", "Parameter 'y' was not an integer")
        ELSE Ok(None),
    LAMBDA y :
    Ok([duration |-> duration, origin |-> origin, x |-> x, y |-> y])))))

PointerMoveAction_from_json(body) ==
    try(IF has(body, "duration")
        THEN IF is_u64(get(body, "duration"))
             THEN Ok(Some(get(body, "duration").n))
             ELSE Err("InvalidArgument", "Parameter 'duration' was not a positive integer")
        ELSE Ok(None),
    LAMBDA duration :
    try(IF has(body, "origin")
        THEN PointerOrigin_from_json(get(body, "origin"))
        ELSE Ok(PointerOrigin_Viewport),
    LAMBDA origin :
    try(IF has(body, "x")
        THEN IF is_i64(get(body, "x"))
             THEN Ok(Some(get(body, "x").n))
             ELSE Err("InvalidArgument", "Parameter 'x' was not an integer")
        ELSE Ok(None),
    LAMBDA x :
    try(IF has(body, "y")
        THEN IF is_i64(get(body, "y"))
             THEN Ok(Some(get(body, "y").n))
             ELSE Err("InvalidArgument", "Parameter 'y' was not an integer")
        ELSE Ok(None),
    LAMBDA y :
    Ok([duration |-> duration, origin |-> origin, x |-> x, y |-> y])))))

PointerMoveAction_to_value(params) ==
    JObj(insert_some(
           insert_some(
             insert(insert_some(insert(EmptyMap, "type", JStr("pointerMove")),
                                "duration", params.duration),
                    "origin", PointerOrigin_to_value(params.origin)),
             "x", params.x),
           "y", params.y))

PointerAction_from_json(body) ==
    IF get_str_is(body, "type", "pointerUp")
    THEN try(PointerUpAction_from_json(body),
             LAMBDA u : Ok([pointer |-> "Up", up |-> u]))
    ELSE IF get_str_is(body, "type", "pointerDown")
    THEN try(PointerDownAction_from_json(body),
             LAMBDA d : Ok([pointer |-> "Down", down |-> d]))
    ELSE IF get_str_is(body, "type", "pointerMove")
    THEN try(PointerMoveAction_from_json(body),
             LAMBDA m : Ok([pointer |-> "Move", move |-> m]))
    ELSE IF get_str_is(body, "type", "pointerCancel")
    THEN Ok([pointer |-> "Cancel"])
    ELSE Err("InvalidArgument", "Missing or invalid type argument for pointer action")

PointerAction_to_value(params) ==
    CASE params.pointer = "Down" -> PointerDownAction_to_value(params.down)
      [] params.pointer = "Up" -> PointerUpAction_to_value(params.up)
      [] params.pointer = "Move" -> PointerMoveAction_to_value(params.move)
      [] params.pointer = "Cancel" ->
           JObj(insert(EmptyMap, "type", JStr("pointerCancel")))

NullActionItem_from_json(body) ==
    IF ~is_object(body)
    THEN Err("InvalidArgument", "Actions chain was not an object")
    ELSE IF ~has(body, "type")
    THEN Err("InvalidArgument", "Missing 'type' parameter")
    ELSE IF ~is_string(get(body, "type"))
    THEN Err("InvalidArgument", "Parameter 'type' was not a string")
    ELSE IF get(body, "type").s = "pause"
    THEN try(GeneralAction_from_json(body),
             LAMBDA g : Ok([item |-> "General", general |-> g]))
    ELSE Err("InvalidArgument", "Invalid type attribute")

NullActionItem_to_value(params) == GeneralAction_to_value(params.general)

KeyActionItem_from_json(body) ==
    IF ~is_object(body)
    THEN Err("InvalidArgument", "Key action item was not an object")
    ELSE IF ~has(body, "type")
    THEN Err("InvalidArgument", "Missing 'type' parameter")
    ELSE IF ~is_string(get(body, "type"))
    THEN Err("InvalidArgument", "Parameter 'type' was not a string")
    ELSE IF get(body, "type").s = "pause"
    THEN try(GeneralAction_from_json(body),
             LAMBDA g : Ok([item |-> "General", general |-> g]))
    ELSE try(KeyAction_from_json(body),
             LAMBDA k : Ok([item |-> "Key", keyaction |-> k]))

KeyActionItem_to_value(params) ==
    CASE params.item = "General" -> GeneralAction_to_value(params.general)
      [] params.item = "Key" -> KeyAction_to_value(params.keyaction)

PointerActionItem_from_json(body) ==
    IF ~is_object(body)
    THEN Err("InvalidArgument", "Pointer action item was not an object")
    ELSE IF ~has(body, "type")
    THEN Err("InvalidArgument", "Missing 'type' parameter")
    ELSE IF ~is_string(get(body, "type"))
    THEN Err("InvalidArgument", "Parameter 'type' was not a string")
    ELSE IF get(body, "type").s = "pause"
    THEN try(GeneralAction_from_json(body),
             LAMBDA g : Ok([item |-> "General", general |-> g]))
    ELSE try(PointerAction_from_json(body),
             LAMBDA a : Ok([item |-> "Pointer", pointeraction |-> a]))

PointerActionItem_to_value(params) ==
    CASE params.item = "General" -> GeneralAction_to_value(params.general)
      [] params.item = "Pointer" -> PointerAction_to_value(params.pointeraction)

PointerType_from_json(body) ==
    IF ~is_string(body)
    THEN Err("InvalidArgument", "Pointer type was not a string")
    ELSE CASE body.s = "mouse" -> Ok("Mouse")
           [] body.s = "pen" -> Ok("Pen")
           [] body.s = "touch" -> Ok("Touch")
           [] OTHER -> Err("InvalidArgument", "Unsupported pointer type")

PointerType_to_value(params) ==
    CASE params = "Mouse" -> JStr("mouse")
      [] params = "Pen" -> JStr("pen")
      [] params = "Touch" -> JStr("touch")

PointerType_default == "Mouse"

PointerActionParameters_default == [pointer_type |-> PointerType_default]

\* from_json with "pointerType" read as a required field.
PointerActionParameters_from_json_required(body) ==
    IF ~is_object(body)
    THEN Err("InvalidArgument", "Parameter 'parameters' was not an object")
    ELSE IF ~has(body, "pointerType")
    THEN Err("InvalidArgument", "Missing pointerType parameter")
    ELSE try(PointerType_from_json(get(body, "pointerType")),
             LAMBDA pointer_type : Ok([pointer_type |-> pointer_type]))

PointerActionParameters_from_json(body) ==
    IF ~is_object(body)
    THEN Err("InvalidArgument", "Parameter 'parameters' was not an object")
    ELSE try(IF has(body, "pointerType")
             THEN PointerType_from_json(get(body, "pointerType"))
             ELSE Ok(PointerType_default),
             LAMBDA pointer_type : Ok([pointer_type |-> pointer_type]))

PointerActionParameters_to_value(params) ==
    JObj(insert(EmptyMap, "pointerType", PointerType_to_value(params.pointer_type)))

\* The loops with the "key" arm calling the pointer item decoder.
item_from_json_pointer_for_key(actions_type, action_body) ==
    CASE actions_type = "none" -> NullActionItem_from_json(action_body)
      [] actions_type = "key" -> PointerActionItem_from_json(action_body)
      [] actions_type = "pointer" -> PointerActionItem_from_json(action_body)

\* The item decoder each of the three loops of ActionsType::from_json calls.
item_from_json(actions_type, action_body) ==
    CASE actions_type = "none" -> NullActionItem_from_json(action_body)
      [] actions_type = "key" -> KeyActionItem_from_json(action_body)
      [] actions_type = "pointer" -> PointerActionItem_from_json(action_body)

\* The loop putting each decoded item in front of the earlier ones.
RECURSIVE push_items_in_front(_, _, _)
push_items_in_front(actions_type, actions_chain, actions) ==
    IF Len(actions_chain) = 0
    THEN Ok(actions)
    ELSE try(item_from_json(actions_type, Head(actions_chain)),
             LAMBDA item : push_items_in_front(actions_type, Tail(actions_chain),
                                               <<item>> \o actions))

\* for action_body in actions_chain.iter() { actions.push(try!(..)) }
RECURSIVE push_items(_, _, _)
push_items(actions_type, actions_chain, actions) ==
    IF Len(actions_chain) = 0
    THEN Ok(actions)
    ELSE try(item_from_json(actions_type, Head(actions_chain)),
             LAMBDA item : push_items(actions_type, Tail(actions_chain),
                                      Append(actions, item)))

ActionsType_from_json(body) ==
    IF ~is_object(body)
    THEN Panic("Body should be a JSON Object")
    ELSE IF ~(has(body, "type") /\ is_string(get(body, "type")))
    THEN Panic("Type should be a string")
    ELSE IF ~has(body, "actions")
    THEN Err("InvalidArgument", "Missing actions parameter")
    ELSE IF ~is_array(get(body, "actions"))
    THEN Err("InvalidArgument", "Parameter 'actions' was not an array")
    ELSE IF get(body, "type").s = "none"
    THEN try(push_items("none", get(body, "actions").a, << >>),
             LAMBDA actions : Ok([type |-> "Null", actions |-> actions]))
    ELSE IF get(body, "type").s = "key"
    THEN try(push_items("key", get(body, "actions").a, << >>),
             LAMBDA actions : Ok([type |-> "Key", actions |-> actions]))
    ELSE IF get(body, "type").s = "pointer"
    THEN try(IF has(body, "parameters")
             THEN PointerActionParameters_from_json(get(body, "parameters"))
             ELSE Ok(PointerActionParameters_default),
         LAMBDA parameters :
         try(push_items("pointer", get(body, "actions").a, << >>),
         LAMBDA actions :
         Ok([type |-> "Pointer", parameters |-> parameters, actions |-> actions])))
    ELSE Panic("Got unexpected action type after checking type")

\* from_json handing every string type to ActionsType::from_json.
ActionSequence_from_json_any_type(body) ==
    IF ~is_object(body)
    THEN Err("InvalidArgument", "Actions chain was not an object")
    ELSE IF ~has(body, "type")
    THEN Err("InvalidArgument", "Missing type parameter")
    ELSE IF ~is_string(get(body, "type"))
    THEN Err("InvalidArgument", "Parameter ;type' was not a string")
    ELSE try(IF has(body, "id")
             THEN IF is_string(get(body, "id"))
                  THEN Ok(Some(get(body, "id").s))
                  ELSE Err("InvalidArgument", "Parameter 'id' was not a string")
             ELSE Ok(None),
         LAMBDA id :
         try(ActionsType_from_json(body),
             LAMBDA actions : Ok([id |-> id, actions |-> actions])))

ActionSequence_from_json(body) ==
    IF ~is_object(body)
    THEN Err("InvalidArgument", "Actions chain was not an object")
    ELSE IF ~has(body, "type")
    THEN Err("InvalidArgument", "Missing type parameter")
    ELSE IF ~is_string(get(body, "type"))
    THEN Err("InvalidArgument", "Parameter ;type' was not a string")
    ELSE try(IF has(body, "id")
             THEN IF is_string(get(body, "id"))
                  THEN Ok(Some(get(body, "id").s))
                  ELSE Err("InvalidArgument", "Parameter 'id' was not a string")
             ELSE Ok(None),
         LAMBDA id :
         IF get(body, "type").s \in {"none", "key", "pointer"}
         THEN try(ActionsType_from_json(body),
                  LAMBDA actions : Ok([id |-> id, actions |-> actions]))
         ELSE Err("InvalidArgument", "Invalid action type"))

\* actions.iter().map(|x| x.into()).collect::<Vec<Value>>()
items_to_value(actions, kind) ==
    [i \in 1..Len(actions) |->
        CASE kind = "Null" -> NullActionItem_to_value(actions[i])
          [] kind = "Key" -> KeyActionItem_to_value(actions[i])
          [] kind = "Pointer" -> PointerActionItem_to_value(actions[i])]

action_type_name(actions) ==
    CASE actions.type = "Null" -> "none"
      [] actions.type = "Key" -> "key"
      [] actions.type = "Pointer" -> "pointer"

ActionSequence_to_value(params) ==
    JObj(insert(
           insert(
             IF params.actions.type = "Pointer"
             THEN insert(insert(EmptyMap, "id",
                                IF params.id.some THEN JStr(params.id.v) ELSE JNull),
                         "parameters",
                         PointerActionParameters_to_value(params.actions.parameters))
             ELSE insert(EmptyMap, "id",
                         IF params.id.some THEN JStr(params.id.v) ELSE JNull),
             "type", JStr(action_type_name(params.actions))),
           "actions",
           JArr(items_to_value(params.actions.actions, params.actions.type))))

\* The loop over the chains decoding the last chain first.
RECURSIVE push_chains_from_end(_, _)
push_chains_from_end(chains, result) ==
    IF Len(chains) = 0
    THEN Ok([actions |-> result])
    ELSE try(ActionSequence_from_json(chains[Len(chains)]),
             LAMBDA seq : push_chains_from_end(SubSeq(chains, 1, Len(chains) - 1),
                                               <<seq>> \o result))

\* for chain in actions.iter() { result.push(try!(ActionSequence::from_json(chain))) }
RECURSIVE push_chains(_, _)
push_chains(chains, result) ==
    IF Len(chains) = 0
    THEN Ok([actions |-> result])
    ELSE try(ActionSequence_from_json(Head(chains)),
             LAMBDA seq : push_chains(Tail(chains), Append(result, seq)))

ActionsParameters_from_json(body) ==
    IF ~is_object(body)
    THEN Err("InvalidArgument", "Message body was not an object")
    ELSE IF ~has(body, "actions")
    THEN Err("InvalidArgument", "No actions parameter found")
    ELSE IF ~is_array(get(body, "actions"))
    THEN Err("InvalidArgument", "Parameter 'actions' was not an array")
    ELSE push_chains(get(body, "actions").a, << >>)

----------------------------------------------------------------------------
(* actions.rs: the decoder serde derives from the type declarations.       *)

\* An error of the deserializer: not a WebDriverError.
SerdeError(message) == [ok |-> FALSE, status |-> "serde", msg |-> message]

UpperCase == "ABCDEFGHIJKLMNOPQRSTUVWXYZ"

LowerCase == "abcdefghijklmnopqrstuvwxyz"

lower_char(c) ==
    IF \E i \in 1..Len(UpperCase) : SubSeq(UpperCase, i, i) = c
    THEN LET i == CHOOSE i \in 1..Len(UpperCase) : SubSeq(UpperCase, i, i) = c
         IN  SubSeq(LowerCase, i, i)
    ELSE c

\* rename_all = "lowercase": the wire name of a variant.
RECURSIVE lowercase(_)
lowercase(name) ==
    IF Len(name) = 0 THEN ""
    ELSE lower_char(SubSeq(name, 1, 1)) \o lowercase(SubSeq(name, 2, Len(name)))

\* A required field of a struct, and an Option field (absent or null is None).
required_field(body, key) ==
    IF has(body, key) THEN Ok(get(body, key))
    ELSE SerdeError("missing field '" \o key \o "'")

deserialize_u64(v) ==
    IF is_u64(v) THEN Ok(v.n) ELSE SerdeError("invalid type, expected u64")

deserialize_i64(v) ==
    IF is_i64(v) THEN Ok(v.n) ELSE SerdeError("invalid type, expected i64")

optional_u64(body, key) ==
    IF ~has(body, key) \/ get(body, key) = JNull THEN Ok(None)
    ELSE try(deserialize_u64(get(body, key)), LAMBDA n : Ok(Some(n)))

optional_i64(body, key) ==
    IF ~has(body, key) \/ get(body, key) = JNull THEN Ok(None)
    ELSE try(deserialize_i64(get(body, key)), LAMBDA n : Ok(Some(n)))

optional_string(body, key) ==
    IF ~has(body, key) \/ get(body, key) = JNull THEN Ok(None)
    ELSE IF is_string(get(body, key)) THEN Ok(Some(get(body, key).s))
    ELSE SerdeError("invalid type, expected a string")

\* tag = "type": the name of the variant an object selects.
tag_of(body) ==
    IF ~is_object(body) THEN SerdeError("invalid type, expected a map")
    ELSE try(required_field(body, "type"),
             LAMBDA tag : IF is_string(tag) THEN Ok(tag.s)
                          ELSE SerdeError("invalid type, expected a variant name"))

\* struct PauseAction { duration: u64 }
PauseAction_deserialize(body) ==
    try(required_field(body, "duration"), LAMBDA v :
    try(deserialize_u64(v), LAMBDA duration : Ok([duration |-> duration])))

\* enum GeneralAction { Pause(PauseAction) }, tagged, the variant not renamed.
GeneralAction_deserialize(body) ==
    try(tag_of(body), LAMBDA tag :
        IF tag = "Pause"
        THEN try(PauseAction_deserialize(body),
                 LAMBDA p : Ok([general |-> "Pause", pause |-> p]))
        ELSE SerdeError("unknown variant '" \o tag \o "'"))

\* struct KeyUpAction { value: char } and struct KeyDownAction { value: char }
key_value_deserialize(body) ==
    try(required_field(body, "value"), LAMBDA v :
        IF is_string(v) /\ Len(v.s) = 1 THEN Ok([value |-> v.s])
        ELSE SerdeError("invalid value, expected a character"))

\* enum KeyAction, tagged, with Up renamed keyUp and Down renamed keyDown.
KeyAction_deserialize(body) ==
    try(tag_of(body), LAMBDA tag :
        CASE tag = "keyUp" ->
               try(key_value_deserialize(body), LAMBDA a : Ok([key |-> "Up", up |-> a]))
          [] tag = "keyDown" ->
               try(key_value_deserialize(body), LAMBDA a : Ok([key |-> "Down", down |-> a]))
          [] OTHER -> SerdeError("unknown variant '" \o tag \o "'"))

\* enum PointerOrigin, untagged: a unit variant matches the unit value only,
\* Viewport before Pointer; WebElement has no Deserialize in common.rs, so no
\* value is matched by the Element variant.
PointerOrigin_deserialize(v) ==
    IF v = JNull THEN Ok(PointerOrigin_Viewport)
    ELSE SerdeError("data did not match any variant of untagged enum PointerOrigin")

\* struct PointerUpAction { button: u64 } and struct PointerDownAction
button_deserialize(body) ==
    try(required_field(body, "button"), LAMBDA v :
    try(deserialize_u64(v), LAMBDA button : Ok([button |-> button])))

\* struct PointerMoveAction { duration, origin, x, y }
PointerMoveAction_deserialize(body) ==
    try(optional_u64(body, "duration"), LAMBDA duration :
    try(required_field(body, "origin"), LAMBDA o :
    try(PointerOrigin_deserialize(o), LAMBDA origin :
    try(optional_i64(body, "x"), LAMBDA x :
    try(optional_i64(body, "y"), LAMBDA y :
        Ok([duration |-> duration, origin |-> origin, x |-> x, y |-> y]))))))

\* enum PointerAction, tagged, the four variants renamed.
PointerAction_deserialize(body) ==
    try(tag_of(body), LAMBDA tag :
        CASE tag = "pointerUp" ->
               try(button_deserialize(body), LAMBDA a : Ok([pointer |-> "Up", up |-> a]))
          [] tag = "pointerDown" ->
               try(button_deserialize(body), LAMBDA a : Ok([pointer |-> "Down", down |-> a]))
          [] tag = "pointerMove" ->
               try(PointerMoveAction_deserialize(body),
                   LAMBDA a : Ok([pointer |-> "Move", move |-> a]))
          [] tag = "pointerCancel" -> Ok([pointer |-> "Cancel"])
          [] OTHER -> SerdeError("unknown variant '" \o tag \o "'"))

\* The three untagged item enums: the first variant that matches.
item_deserialize(variant, body) ==
    LET general == GeneralAction_deserialize(body)
        key == KeyAction_deserialize(body)
        pointer == PointerAction_deserialize(body)
    IN  IF general.ok THEN Ok([item |-> "General", general |-> general.val])
        ELSE IF variant = "Key" /\ key.ok THEN Ok([item |-> "Key", keyaction |-> key.val])
        ELSE IF variant = "Pointer" /\ pointer.ok
        THEN Ok([item |-> "Pointer", pointeraction |-> pointer.val])
        ELSE SerdeError("data did not match any variant of untagged enum "
                            \o variant \o "ActionItem")

\* actions: Vec<..>
RECURSIVE items_deserialize(_, _, _)
items_deserialize(variant, items, actions) ==
    IF Len(items) = 0 THEN Ok(actions)
    ELSE try(item_deserialize(variant, Head(items)),
             LAMBDA item : items_deserialize(variant, Tail(items), Append(actions, item)))

actions_deserialize(variant, body) ==
    try(required_field(body, "actions"), LAMBDA v :
        IF is_array(v) THEN items_deserialize(variant, v.a, << >>)
        ELSE SerdeError("invalid type, expected a sequence"))

\* enum PointerType, rename_all = "lowercase"
PointerTypes == {"Mouse", "Pen", "Touch"}

PointerType_deserialize(v) ==
    IF is_string(v) /\ \E ty \in PointerTypes : lowercase(ty) = v.s
    THEN Ok(CHOOSE ty \in PointerTypes : lowercase(ty) = v.s)
    ELSE SerdeError("unknown variant")

\* struct PointerActionParameters { pointerType }, and serde(default) on the
\* parameters field of the Pointer variant.
PointerActionParameters_deserialize(body) ==
    IF ~has(body, "parameters") THEN Ok(PointerActionParameters_default)
    ELSE IF ~is_object(get(body, "parameters"))
    THEN SerdeError("invalid type, expected struct PointerActionParameters")
    ELSE try(required_field(get(body, "parameters"), "pointerType"), LAMBDA v :
         try(PointerType_deserialize(v), LAMBDA ty : Ok([pointer_type |-> ty])))

\* enum Helper, tag = "type", rename_all = "lowercase"
HelperVariants == {"Null", "Key", "Pointer"}

Helper_name(variant) == lowercase(variant)

Helper_deserialize(body) ==
    try(tag_of(body), LAMBDA tag :
        IF \E variant \in HelperVariants : Helper_name(variant) = tag
        THEN LET variant == CHOOSE variant \in HelperVariants : Helper_name(variant) = tag
             IN  try(optional_string(body, "id"), LAMBDA id :
                 IF variant = "Pointer"
                 THEN try(PointerActionParameters_deserialize(body), LAMBDA parameters :
                      try(actions_deserialize(variant, body), LAMBDA actions :
                          Ok([variant |-> variant, id |-> id,
                              parameters |-> parameters, actions |-> actions])))
                 ELSE try(actions_deserialize(variant, body), LAMBDA actions :
                          Ok([variant |-> variant, id |-> id, actions |-> actions])))
        ELSE SerdeError("unknown variant '" \o tag \o "'"))

\* Deserialize for ActionSequence
ActionSequence_deserialize(body) ==
    try(Helper_deserialize(body), LAMBDA helper :
        IF helper.variant = "Pointer"
        THEN Ok([id |-> helper.id,
                 actions |-> [type |-> "Pointer", parameters |-> helper.parameters,
                              actions |-> helper.actions]])
        ELSE Ok([id |-> helper.id,
                 actions |-> [type |-> helper.variant, actions |-> helper.actions]]))

----------------------------------------------------------------------------
(* serde_json::to_string and serde_json::from_str, on the JSON texts the   *)
(* response encoder produces: compact text, no escapes, floats written n.0 *)

Quote == "\""

str_to_string(str) == Quote \o str \o Quote

int_to_string(n) == ToString(n)

f64_to_string(n) == ToString(n) \o ".0"

bool_to_string(b) == IF b THEN "true" ELSE "false"

\* A JSON array / object from the texts of its elements / its (key, text) pairs.
RECURSIVE join(_)
join(texts) ==
    IF Len(texts) = 0 THEN ""
    ELSE IF Len(texts) = 1 THEN texts[1]
    ELSE texts[1] \o "," \o join(Tail(texts))

array_to_string(texts) == "[" \o join(texts) \o "]"

struct_to_string(fields) ==
    "{" \o join([i \in 1..Len(fields) |->
                    str_to_string(fields[i][1]) \o ":" \o fields[i][2]]) \o "}"

\* The keys of a Map in the order the serializer visits them.
RECURSIVE key_order(_)
key_order(keys) ==
    IF keys = {} THEN << >>
    ELSE LET k == CHOOSE x \in keys : TRUE
         IN  <<k>> \o key_order(keys \ {k})

RECURSIVE value_to_string(_)
value_to_string(v) ==
    CASE v.t = "null" -> "null"
      [] v.t = "bool" -> bool_to_string(v.b)
      [] v.t = "num" -> IF v.k = "int" THEN int_to_string(v.n) ELSE f64_to_string(v.n)
      [] v.t = "str" -> str_to_string(v.s)
      [] v.t = "arr" -> array_to_string([i \in 1..Len(v.a) |-> value_to_string(v.a[i])])
      [] v.t = "obj" ->
           LET keys == key_order(DOMAIN v.o)
           IN  struct_to_string([i \in 1..Len(keys) |->
                                    <<keys[i], value_to_string(v.o[keys[i]])>>])

\* from_str: the character at i ("" past the end), and the parser proper.
char_at(text, i) == IF i >= 1 /\ i <= Len(text) THEN SubSeq(text, i, i) ELSE ""

starts_with(text, i, word) ==
    i + Len(word) - 1 <= Len(text) /\ SubSeq(text, i, i + Len(word) - 1) = word

Digits == {"0", "1", "2", "3", "4", "5", "6", "7", "8", "9"}

digit_value(c) ==
    CASE c = "0" -> 0 [] c = "1" -> 1 [] c = "2" -> 2 [] c = "3" -> 3 [] c = "4" -> 4
      [] c = "5" -> 5 [] c = "6" -> 6 [] c = "7" -> 7 [] c = "8" -> 8 [] c = "9" -> 9

Whitespace == {" ", "\n", "\t", "\r"}

RECURSIVE skip_ws(_, _)
skip_ws(text, i) ==
    IF char_at(text, i) \in Whitespace THEN skip_ws(text, i + 1) ELSE i

\* The position after the last digit of a run of digits starting at i.
RECURSIVE digits_end(_, _)
digits_end(text, i) ==
    IF char_at(text, i) \in Digits THEN digits_end(text, i + 1) ELSE i

RECURSIVE digits_value(_, _, _, _)
digits_value(text, i, end, acc) ==
    IF i >= end THEN acc
    ELSE digits_value(text, i + 1, end, acc * 10 + digit_value(char_at(text, i)))

\* The position of the quote that closes a string whose text starts at i.
RECURSIVE string_end(_, _)
string_end(text, i) ==
    IF i > Len(text) THEN 0
    ELSE IF char_at(text, i) = Quote THEN i
    ELSE string_end(text, i + 1)

\* A syntax error met at position at of the text.
ParseFail(at) == [ok |-> FALSE, at |-> at]

Parsed(v, next) == [ok |-> TRUE, val |-> v, next |-> next]

parse_number(text, i) ==
    LET neg == char_at(text, i) = "-"
        first == IF neg THEN i + 1 ELSE i
        end == digits_end(text, first)
        n == digits_value(text, first, end, 0)
        signed == IF neg THEN 0 - n ELSE n
    IN  IF end = first THEN ParseFail(first)
        ELSE IF char_at(text, end) = "."
        THEN LET fend == digits_end(text, end + 1)
             IN  IF fend = end + 1 \/ digits_value(text, end + 1, fend, 0) # 0
                 THEN ParseFail(fend)
                 ELSE Parsed(JFloat(signed), fend)
        ELSE Parsed(JInt(signed), end)

parse_string(text, i) ==
    LET close == string_end(text, i + 1)
    IN  IF char_at(text, i) # Quote THEN ParseFail(i)
        ELSE IF close = 0 THEN ParseFail(Len(text) + 1)
        ELSE Parsed(SubSeq(text, i + 1, close - 1), close + 1)

RECURSIVE parse_value(_, _)
RECURSIVE parse_elements(_, _, _)
RECURSIVE parse_members(_, _, _)

parse_value(text, i) ==
    LET j == skip_ws(text, i)
        c == char_at(text, j)
    IN  CASE c = "{" ->
               IF char_at(text, skip_ws(text, j + 1)) = "}"
               THEN Parsed(JObj(EmptyMap), skip_ws(text, j + 1) + 1)
               ELSE parse_members(text, j + 1, EmptyMap)
          [] c = "[" ->
               IF char_at(text, skip_ws(text, j + 1)) = "]"
               THEN Parsed(JArr(<< >>), skip_ws(text, j + 1) + 1)
               ELSE parse_elements(text, j + 1, << >>)
          [] c = Quote ->
               LET r == parse_string(text, j)
               IN  IF ~r.ok THEN r ELSE Parsed(JStr(r.val), r.next)
          [] c = "n" -> IF starts_with(text, j, "null")
                        THEN Parsed(JNull, j + 4) ELSE ParseFail(j)
          [] c = "t" -> IF starts_with(text, j, "true")
                        THEN Parsed(JBool(TRUE), j + 4) ELSE ParseFail(j)
          [] c = "f" -> IF starts_with(text, j, "false")
                        THEN Parsed(JBool(FALSE), j + 5) ELSE ParseFail(j)
          [] c \in Digits \cup {"-"} -> parse_number(text, j)
          [] OTHER -> ParseFail(j)

parse_elements(text, i, acc) ==
    LET r == parse_value(text, i)
    IN  IF ~r.ok THEN r
        ELSE LET j == skip_ws(text, r.next)
                 c == char_at(text, j)
             IN  CASE c = "," -> parse_elements(text, j + 1, Append(acc, r.val))
                   [] c = "]" -> Parsed(JArr(Append(acc, r.val)), j + 1)
                   [] OTHER -> ParseFail(j)

parse_members(text, i, acc) ==
    LET k == parse_string(text, skip_ws(text, i))
    IN  IF ~k.ok THEN k
        ELSE LET colon == skip_ws(text, k.next)
             IN  IF char_at(text, colon) # ":" THEN ParseFail(colon)
                 ELSE LET r == parse_value(text, colon + 1)
                      IN  IF ~r.ok THEN r
                          ELSE LET j == skip_ws(text, r.next)
                                   c == char_at(text, j)
                                   map == insert(acc, k.val, r.val)
                               IN  CASE c = "," -> parse_members(text, j + 1, map)
                                     [] c = "}" -> Parsed(JObj(map), j + 1)
                                     [] OTHER -> ParseFail(j)

\* The line of position at, and the column: the characters of that line up to
\* and including position at (the end of the text when at is past it).
RECURSIVE line_of(_, _)
line_of(text, at) ==
    IF at <= 1 THEN 1
    ELSE line_of(text, at - 1) + (IF char_at(text, at - 1) = "\n" THEN 1 ELSE 0)

RECURSIVE column_of(_, _)
column_of(text, at) ==
    IF at < 1 \/ char_at(text, at) = "\n" THEN 0
    ELSE IF at > Len(text) THEN column_of(text, Len(text))
    ELSE column_of(text, at - 1) + 1

\* serde_json::from_str: one value, then only whitespace to the end; a syntax
\* error carries the line and the column where it was met.
syntax_error(text, at) ==
    [ok |-> FALSE, line |-> line_of(text, at), column |-> column_of(text, at)]

from_str(text) ==
    LET r == parse_value(text, 1)
    IN  IF ~r.ok THEN syntax_error(text, r.at)
        ELSE IF skip_ws(text, r.next) = Len(text) + 1
        THEN Ok(r.val)
        ELSE syntax_error(text, skip_ws(text, r.next))

----------------------------------------------------------------------------
(* command.rs: WebDriverMessage                                            *)

\* try_opt!: the value of an Option, or the given error.
try_opt(opt, status, message) == IF opt.some THEN Ok(opt.v) ELSE Err(status, message)

\* WebDriverError::new_with_stack: an error with a secondary diagnostic.
WebDriverError_new_with_stack(status, message, stack) ==
    [ok |-> FALSE, status |-> status, msg |-> message, stack |-> stack]

\* Captures::name: the named URL capture, if the route's pattern matched one.
Captures_name(params, key) ==
    IF key \in DOMAIN params THEN Some(params[key]) ELSE None

WebDriverMessage_new(session_id, command) ==
    [session_id |-> session_id, command |-> command]


\* get_session_id reading a capture the routes do not have.
get_session_id_misnamed(params) == Captures_name(params, "session_id")

get_session_id(params) == Captures_name(params, "sessionId")

\* decode_body that parses the text whether or not the route requires a body.
decode_body_always(body, requires_body) ==
    LET parsed == from_str(body)
    IN  IF parsed.ok
        THEN IF is_object(parsed.val)
             THEN Ok(parsed.val)
             ELSE Err("InvalidArgument", "Body was not a JSON Object")
        ELSE WebDriverError_new_with_stack(
                 "InvalidArgument",
                 "Failed to decode request as JSON: " \o body,
                 "Syntax error at :" \o ToString(parsed.line)
                     \o ":" \o ToString(parsed.column))

\* decode_body that keeps the position of a syntax error in the message.
decode_body_one_message(body, requires_body) ==
    IF requires_body
    THEN LET parsed == from_str(body)
         IN  IF parsed.ok
             THEN IF is_object(parsed.val)
                  THEN Ok(parsed.val)
                  ELSE Err("InvalidArgument", "Body was not a JSON Object")
             ELSE Err("InvalidArgument",
                      "Failed to decode request as JSON: " \o body
                          \o " Syntax error at :" \o ToString(parsed.line)
                          \o ":" \o ToString(parsed.column))
    ELSE Ok(JNull)

\* from_str reads from a string, so its error is never an I/O error.
decode_body(body, requires_body) ==
    IF requires_body
    THEN LET parsed == from_str(body)
         IN  IF parsed.ok
             THEN IF is_object(parsed.val)
                  THEN Ok(parsed.val)
                  ELSE Err("InvalidArgument", "Body was not a JSON Object")
             ELSE WebDriverError_new_with_stack(
                      "InvalidArgument",
                      "Failed to decode request as JSON: " \o body,
                      "Syntax error at :" \o ToString(parsed.line)
                          \o ":" \o ToString(parsed.column))
    ELSE Ok(JNull)

\* The two decoders of the capabilities module, as far as the dispatcher
\* depends on them: each takes the body and yields parameters or an error.
SpecNewSessionParameters_from_json(body) ==
    IF is_object(get(body, "capabilities"))
    THEN Ok([capabilities |-> get(body, "capabilities")])
    ELSE Err("InvalidArgument", "'capabilities' parameter is not an object")

LegacyNewSessionParameters_from_json(body) == Ok([legacy |-> body])

NewSessionParameters_from_json(body) ==
    IF ~is_object(body)
    THEN Err("UnknownError", "Message body was not an object")
    ELSE IF has(body, "capabilities")
    THEN try(SpecNewSessionParameters_from_json(body),
             LAMBDA x : Ok([variant |-> "Spec", x |-> x]))
    ELSE try(LegacyNewSessionParameters_from_json(body),
             LAMBDA x : Ok([variant |-> "Legacy", x |-> x]))

\* The decoders a host may inject for its extension routes: one that accepts
\* everything and keeps what it was given, one that rejects everything, and
\* one that requires a field of the body.
Extensions == {"keep", "reject", "context"}

extension_command(extension, params, body_data) ==
    CASE extension = "keep" ->
           Ok([command |-> "Extension",
               extension |-> [params |-> params, body_data |-> body_data]])
      [] extension = "reject" -> Err("UnknownCommand", "No such extension command")
      [] extension = "context" ->
           IF has(body_data, "context")
           THEN Ok([command |-> "Extension",
                    extension |-> [context |-> get(body_data, "context")]])
           ELSE Err("InvalidArgument", "Missing context parameter")

\* The elementId capture with an empty id for a URL that has none.
element_capture_or_empty(params) ==
    IF "elementId" \in DOMAIN params
    THEN Ok(WebElement_new(params["elementId"]))
    ELSE Ok(WebElement_new(""))

\* The elementId capture as a WebElement.
element_capture(params) ==
    try(try_opt(Captures_name(params, "elementId"),
                "InvalidArgument", "Missing elementId parameter"),
        LAMBDA element_id : Ok(WebElement_new(element_id)))

\* The arms of the match inside from_http for the routes of this crate.
known_route_command(tag, params, body_data) ==
        CASE tag = "NewSession" ->
           try(NewSessionParameters_from_json(body_data),
               LAMBDA parameters : Ok([command |-> "NewSession", parameters |-> parameters]))
          [] tag = "DeleteSession" -> Ok([command |-> "DeleteSession"])
          [] tag = "Get" ->
           try(GetParameters_from_json(body_data),
               LAMBDA parameters : Ok([command |-> "Get", parameters |-> parameters]))
          [] tag = "GetCurrentUrl" -> Ok([command |-> "GetCurrentUrl"])
          [] tag = "GoBack" -> Ok([command |-> "GoBack"])
          [] tag = "GoForward" -> Ok([command |-> "GoForward"])
          [] tag = "Refresh" -> Ok([command |-> "Refresh"])
          [] tag = "GetTitle" -> Ok([command |-> "GetTitle"])
          [] tag = "GetPageSource" -> Ok([command |-> "GetPageSource"])
          [] tag = "GetWindowHandle" -> Ok([command |-> "GetWindowHandle"])
          [] tag = "GetWindowHandles" -> Ok([command |-> "GetWindowHandles"])
          [] tag = "CloseWindow" -> Ok([command |-> "CloseWindow"])
          [] tag = "GetTimeouts" -> Ok([command |-> "GetTimeouts"])
          [] tag = "SetTimeouts" ->
           try(TimeoutsParameters_from_json(body_data),
               LAMBDA parameters : Ok([command |-> "SetTimeouts", parameters |-> parameters]))
          [] tag = "GetWindowRect" -> Ok([command |-> "GetWindowRect"])
          [] tag = "GetWindowPosition" -> Ok([command |-> "GetWindowRect"])
          [] tag = "GetWindowSize" -> Ok([command |-> "GetWindowRect"])
          [] tag = "SetWindowRect" ->
           try(WindowRectParameters_from_json(body_data),
               LAMBDA parameters : Ok([command |-> "SetWindowRect", parameters |-> parameters]))
          [] tag = "SetWindowPosition" ->
           try(WindowRectParameters_from_json(body_data),
               LAMBDA parameters : Ok([command |-> "SetWindowRect", parameters |-> parameters]))
          [] tag = "SetWindowSize" ->
           try(WindowRectParameters_from_json(body_data),
               LAMBDA parameters : Ok([command |-> "SetWindowRect", parameters |-> parameters]))
          [] tag = "MaximizeWindow" -> Ok([command |-> "MaximizeWindow"])
          [] tag = "SwitchToWindow" ->
           try(SwitchToWindowParameters_from_json(body_data),
               LAMBDA parameters : Ok([command |-> "SwitchToWindow", parameters |-> parameters]))
          [] tag = "SwitchToFrame" ->
           try(SwitchToFrameParameters_from_json(body_data),
               LAMBDA parameters : Ok([command |-> "SwitchToFrame", parameters |-> parameters]))
          [] tag = "SwitchToParentFrame" -> Ok([command |-> "SwitchToParentFrame"])
          [] tag = "FindElement" ->
           try(LocatorParameters_from_json(body_data),
               LAMBDA parameters : Ok([command |-> "FindElement", parameters |-> parameters]))
          [] tag = "FindElements" ->
           try(LocatorParameters_from_json(body_data),
               LAMBDA parameters : Ok([command |-> "FindElements", parameters |-> parameters]))
          [] tag = "FindElementElement" ->
           try(element_capture(params), LAMBDA element :
           try(LocatorParameters_from_json(body_data), LAMBDA parameters :
               Ok([command |-> "FindElementElement", element |-> element, parameters |-> parameters])))
          [] tag = "FindElementElements" ->
           try(element_capture(params), LAMBDA element :
           try(LocatorParameters_from_json(body_data), LAMBDA parameters :
               Ok([command |-> "FindElementElements", element |-> element, parameters |-> parameters])))
          [] tag = "GetActiveElement" -> Ok([command |-> "GetActiveElement"])
          [] tag = "IsDisplayed" ->
           try(element_capture(params),
               LAMBDA element : Ok([command |-> "IsDisplayed", element |-> element]))
          [] tag = "IsSelected" ->
           try(element_capture(params),
               LAMBDA element : Ok([command |-> "IsSelected", element |-> element]))
          [] tag = "GetElementAttribute" ->
           try(element_capture(params), LAMBDA element :
           try(try_opt(Captures_name(params, "name"),
                       "InvalidArgument", "Missing name parameter"), LAMBDA name :
               Ok([command |-> "GetElementAttribute", element |-> element, name |-> name])))
          [] tag = "GetElementProperty" ->
           try(element_capture(params), LAMBDA element :
           try(try_opt(Captures_name(params, "name"),
                       "InvalidArgument", "Missing name parameter"), LAMBDA name :
               Ok([command |-> "GetElementProperty", element |-> element, name |-> name])))
          [] tag = "GetCSSValue" ->
           try(element_capture(params), LAMBDA element :
           try(try_opt(Captures_name(params, "propertyName"),
                       "InvalidArgument", "Missing propertyName parameter"), LAMBDA name :
               Ok([command |-> "GetCSSValue", element |-> element, name |-> name])))
          [] tag = "GetElementText" ->
           try(element_capture(params),
               LAMBDA element : Ok([command |-> "GetElementText", element |-> element]))
          [] tag = "GetElementTagName" ->
           try(element_capture(params),
               LAMBDA element : Ok([command |-> "GetElementTagName", element |-> element]))
          [] tag = "GetElementRect" ->
           try(element_capture(params),
               LAMBDA element : Ok([command |-> "GetElementRect", element |-> element]))
          [] tag = "IsEnabled" ->
           try(element_capture(params),
               LAMBDA element : Ok([command |-> "IsEnabled", element |-> element]))
          [] tag = "ElementClick" ->
           try(element_capture(params),
               LAMBDA element : Ok([command |-> "ElementClick", element |-> element]))
          [] tag = "ElementTap" ->
           try(element_capture(params),
               LAMBDA element : Ok([command |-> "ElementTap", element |-> element]))
          [] tag = "ElementClear" ->
           try(element_capture(params),
               LAMBDA element : Ok([command |-> "ElementClear", element |-> element]))
          [] tag = "ElementSendKeys" ->
           try(element_capture(params), LAMBDA element :
           try(SendKeysParameters_from_json(body_data), LAMBDA parameters :
               Ok([command |-> "ElementSendKeys", element |-> element, parameters |-> parameters])))
          [] tag = "ExecuteScript" ->
           try(JavascriptCommandParameters_from_json(body_data),
               LAMBDA parameters : Ok([command |-> "ExecuteScript", parameters |-> parameters]))
          [] tag = "ExecuteAsyncScript" ->
           try(JavascriptCommandParameters_from_json(body_data),
               LAMBDA parameters : Ok([command |-> "ExecuteAsyncScript", parameters |-> parameters]))
          [] tag = "GetCookies" -> Ok([command |-> "GetCookies"])
          [] tag = "GetNamedCookie" ->
           try(try_opt(Captures_name(params, "name"),
                       "InvalidArgument", "Missing 'name' parameter"),
               LAMBDA name : Ok([command |-> "GetNamedCookie", name |-> name]))
          [] tag = "AddCookie" ->
           try(AddCookieParameters_from_json(body_data),
               LAMBDA parameters : Ok([command |-> "AddCookie", parameters |-> parameters]))
          [] tag = "DeleteCookies" -> Ok([command |-> "DeleteCookies"])
          [] tag = "DeleteCookie" ->
           try(try_opt(Captures_name(params, "name"),
                       "InvalidArgument", "Missing name parameter"),
               LAMBDA name : Ok([command |-> "DeleteCookie", name |-> name]))
          [] tag = "PerformActions" ->
           try(ActionsParameters_from_json(body_data),
               LAMBDA parameters : Ok([command |-> "PerformActions", parameters |-> parameters]))
          [] tag = "ReleaseActions" -> Ok([command |-> "ReleaseActions"])
          [] tag = "DismissAlert" -> Ok([command |-> "DismissAlert"])
          [] tag = "AcceptAlert" -> Ok([command |-> "AcceptAlert"])
          [] tag = "GetAlertText" -> Ok([command |-> "GetAlertText"])
          [] tag = "SendAlertText" ->
           try(SendKeysParameters_from_json(body_data),
               LAMBDA parameters : Ok([command |-> "SendAlertText", parameters |-> parameters]))
          [] tag = "TakeScreenshot" -> Ok([command |-> "TakeScreenshot"])
          [] tag = "TakeElementScreenshot" ->
           try(element_capture(params),
               LAMBDA element : Ok([command |-> "TakeElementScreenshot", element |-> element]))
          [] tag = "Status" -> Ok([command |-> "Status"])

\* The match with the two position routes and the two size routes given
\* commands of their own.
route_command_no_alias(match_type, params, body_data) ==
    IF match_type.tag = "Extension"
    THEN extension_command(match_type.extension, params, body_data)
    ELSE IF match_type.tag \in {"GetWindowPosition", "GetWindowSize"}
    THEN Ok([command |-> match_type.tag])
    ELSE known_route_command(match_type.tag, params, body_data)

\* The match on the route inside from_http.
route_command(match_type, params, body_data) ==
    IF match_type.tag = "Extension"
    THEN extension_command(match_type.extension, params, body_data)
    ELSE known_route_command(match_type.tag, params, body_data)

\* from_http handing the match an absent body whatever decode_body returned.
from_http_without_body(match_type, params, raw_body, requires_body) ==
    LET session_id == get_session_id(params)
    IN  try(decode_body(raw_body, requires_body), LAMBDA body_data :
        try(route_command(match_type, params, JNull), LAMBDA command :
            Ok(WebDriverMessage_new(session_id, command))))

\* from_http decoding the body whether or not the route requires one.
from_http_always_parses(match_type, params, raw_body, requires_body) ==
    LET session_id == get_session_id(params)
    IN  try(decode_body(raw_body, TRUE), LAMBDA body_data :
        try(route_command(match_type, params, body_data), LAMBDA command :
            Ok(WebDriverMessage_new(session_id, command))))

\* from_http with the route's errors reported before the body's.
from_http_route_first(match_type, params, raw_body, requires_body) ==
    LET session_id == get_session_id(params)
        body_data == decode_body(raw_body, requires_body)
        command == route_command(match_type, params,
                                 IF body_data.ok THEN body_data.val ELSE JNull)
    IN  IF ~command.ok THEN command
        ELSE IF ~body_data.ok THEN body_data
        ELSE Ok(WebDriverMessage_new(session_id, command.val))

from_http(match_type, params, raw_body, requires_body) ==
    LET session_id == get_session_id(params)
    IN  try(decode_body(raw_body, requires_body), LAMBDA body_data :
        try(route_command(match_type, params, body_data), LAMBDA command :
            Ok(WebDriverMessage_new(session_id, command))))

----------------------------------------------------------------------------
(* response.rs                                                             *)

\* The derived serialization of the struct: an object with a window_handles field.
CloseWindowResponse_derived(resp) ==
    JObj(entry("window_handles",
               JArr([i \in 1..Len(resp.window_handles) |-> JStr(resp.window_handles[i])])))

CloseWindowResponse_to_value(resp) ==
    JArr([i \in 1..Len(resp.window_handles) |-> JStr(resp.window_handles[i])])

NewSessionResponse_to_string(x) ==
    struct_to_string(<< <<"sessionId", str_to_string(x.sessionId)>>,
                        <<"capabilities", value_to_string(x.capabilities)>> >>)

TimeoutsResponse_to_string(x) ==
    struct_to_string(<< <<"script", int_to_string(x.script)>>,
                        <<"pageLoad", int_to_string(x.pageLoad)>>,
                        <<"implicit", int_to_string(x.implicit)>> >>)

ValueResponse_to_string(x) ==
    struct_to_string(<< <<"value", value_to_string(x.value)>> >>)

WindowRectResponse_to_string(x) ==
    struct_to_string(<< <<"x", int_to_string(x.x)>>,
                        <<"y", int_to_string(x.y)>>,
                        <<"width", int_to_string(x.width)>>,
                        <<"height", int_to_string(x.height)>> >>)

ElementRectResponse_to_string(x) ==
    struct_to_string(<< <<"x", f64_to_string(x.x)>>,
                        <<"y", f64_to_string(x.y)>>,
                        <<"width", f64_to_string(x.width)>>,
                        <<"height", f64_to_string(x.height)>> >>)

Cookie_to_string(c) ==
    struct_to_string(<<
        <<"name", str_to_string(c.name)>>,
        <<"value", str_to_string(c.value)>>,
        <<"path", IF c.path.some THEN str_to_string(c.path.v) ELSE "null">>,
        <<"domain", IF c.domain.some THEN str_to_string(c.domain.v) ELSE "null">>,
        <<"expiry", IF c.expiry.some THEN int_to_string(c.expiry.v.date) ELSE "null">>,
        <<"secure", bool_to_string(c.secure)>>,
        <<"httpOnly", bool_to_string(c.httpOnly)>> >>)

CookieResponse_to_string(x) ==
    struct_to_string(<< <<"value",
        array_to_string([i \in 1..Len(x.value) |-> Cookie_to_string(x.value[i])])>> >>)

\* The first match of to_json_string: the variant's own serialization.
response_obj(self) ==
    CASE self.variant = "CloseWindow" -> value_to_string(CloseWindowResponse_to_value(self.x))
      [] self.variant = "Cookie" -> CookieResponse_to_string(self.x)
      [] self.variant = "DeleteSession" -> "{}"
      [] self.variant = "ElementRect" -> ElementRectResponse_to_string(self.x)
      [] self.variant = "Generic" -> ValueResponse_to_string(self.x)
      [] self.variant = "NewSession" -> NewSessionResponse_to_string(self.x)
      [] self.variant = "Timeouts" -> TimeoutsResponse_to_string(self.x)
      [] self.variant = "Void" -> "{}"
      [] self.variant = "WindowRect" -> WindowRectResponse_to_string(self.x)

\* data.push_str("{\"value\": "); data.push_str(&*obj); data.push_str("}")
wrap(obj) == "{\"value\": " \o obj \o "}"

\* The second match without its first arm: every variant is wrapped.
to_json_string_wrap_all(self) == wrap(response_obj(self))

\* The second match with DeleteSession and Void added to its first arm.
to_json_string_bare_empty(self) ==
    IF self.variant \in {"Generic", "Cookie", "DeleteSession", "Void"}
    THEN response_obj(self)
    ELSE wrap(response_obj(self))

to_json_string(self) ==
    IF self.variant \in {"Generic", "Cookie"}
    THEN response_obj(self)
    ELSE wrap(response_obj(self))

\* The JSON value each #[derive(Serialize)] struct stands for.
NewSessionResponse_value(x) ==
    JObj(entry("sessionId", JStr(x.sessionId)) @@ entry("capabilities", x.capabilities))

TimeoutsResponse_value(x) ==
    JObj(entry("script", JInt(x.script)) @@ entry("pageLoad", JInt(x.pageLoad))
         @@ entry("implicit", JInt(x.implicit)))

WindowRectResponse_value(x) ==
    JObj(entry("x", JInt(x.x)) @@ entry("y", JInt(x.y))
         @@ entry("width", JInt(x.width)) @@ entry("height", JInt(x.height)))

ElementRectResponse_value(x) ==
    JObj(entry("x", JFloat(x.x)) @@ entry("y", JFloat(x.y))
         @@ entry("width", JFloat(x.width)) @@ entry("height", JFloat(x.height)))

Cookie_value(c) ==
    JObj(entry("name", JStr(c.name)) @@ entry("value", JStr(c.value))
         @@ entry("path", IF c.path.some THEN JStr(c.path.v) ELSE JNull)
         @@ entry("domain", IF c.domain.some THEN JStr(c.domain.v) ELSE JNull)
         @@ entry("expiry", IF c.expiry.some THEN JInt(c.expiry.v.date) ELSE JNull)
         @@ entry("secure", JBool(c.secure)) @@ entry("httpOnly", JBool(c.httpOnly)))

----------------------------------------------------------------------------
(* Inputs.                                                                 *)

\* Element ids and other opaque strings.
Ids == {"e1", "e2"}

\* Values of every JSON type, used where a field may hold a wrong type.
Scalars == {JNull, JBool(TRUE), JInt(-1), JInt(0), JInt(2), JFloat(1), JStr("a")}

\* All objects whose keys are among keys and whose values are among vals.
Objects(keys, vals) == {JObj(o) : o \in UNION {[K -> vals] : K \in SUBSET keys}}

\* Bodies that are not objects: from_http passes Null when no body is required.
NonObjects == {JNull, JStr("a"), JArr(<< >>)}

\* Frame ids around the two ends of the u16 range, and one far outside.
FrameSpan == 2

FrameNumbers ==
    {JInt(n) : n \in (-FrameSpan..FrameSpan) \cup
                     ((U16_MAX - FrameSpan)..(U16_MAX + FrameSpan)) \cup {70000}}
    \cup {JFloat(n) : n \in {0, 1, U16_MAX, U16_MAX + 1}}

ElementObjects ==
    Objects({ELEMENT_KEY, "id"}, {JStr(i) : i \in Ids} \cup {JInt(0), JNull})

FrameIdInputs == FrameNumbers \cup ElementObjects \cup Scalars \cup {JArr(<< >>)}

GetInputs == Objects({"url"}, Scalars) \cup NonObjects

TimeoutsInputs ==
    Objects({"script", "pageLoad", "implicit"},
            {JNull, JInt(-1), JInt(0), JInt(5), JFloat(1), JStr("a")})
    \cup NonObjects

WindowRectInputs ==
    Objects({"x", "y", "width", "height"},
            {JNull, JInt(-1), JInt(0), JInt(1), JInt(2), JInt(3), JFloat(1), JStr("a")})
    \cup NonObjects

SwitchToWindowInputs == Objects({"handle"}, Scalars) \cup NonObjects

LocatorInputs ==
    Objects({"using", "value"},
            {JStr("css selector"), JStr("link text"), JStr("partial link text"),
             JStr("xpath"), JStr("id"), JInt(0), JNull})
    \cup NonObjects

SwitchToFrameInputs ==
    {JObj(o) : o \in UNION {[K -> FrameIdInputs] : K \in SUBSET {"id"}}} \cup NonObjects

SendKeysInputs == Objects({"text", "value"}, Scalars) \cup NonObjects

JavascriptInputs ==
    Objects({"script", "args"},
            {JStr("return 1"), JInt(0), JNull, JArr(<< >>), JArr(<<JInt(1), JStr("a")>>)})
    \cup NonObjects

GetNamedCookieInputs == Objects({"name"}, Scalars) \cup NonObjects

\* The object under "cookie": each field absent, of its type, or of a wrong type.
CookieObjects ==
    {JObj(o) : o \in UNION {
        {f \in [K -> {JStr("a"), JInt(7), JBool(TRUE)}] :
            /\ \A k \in K \cap {"expiry"} : f[k] # JBool(TRUE)
            /\ \A k \in K \cap {"secure", "httpOnly"} : f[k] # JInt(7)} :
        K \in SUBSET {"name", "value", "path", "domain", "expiry", "secure", "httpOnly"}}}

\* Fields at the top level that bear the names of the cookie's fields.
TopLevelFields ==
    {[name |-> JStr("top"), value |-> JStr("top"), path |-> JStr("/top"),
      secure |-> JBool(TRUE)],
     [name |-> JInt(1), domain |-> JStr("top"), expiry |-> JInt(9),
      httpOnly |-> JStr("top")]}

AddCookieInputs ==
    {JObj(insert(EmptyMap, "cookie", c)) : c \in CookieObjects \cup Scalars}
    \cup {JObj(insert(top, "cookie", c)) : top \in TopLevelFields, c \in CookieObjects}
    \cup Objects({"name", "value"}, {JStr("a")})
    \cup NonObjects

TakeScreenshotInputs ==
    {JObj(o) : o \in UNION {[K -> ElementObjects \cup {JNull, JStr("e1")}] :
                              K \in SUBSET {"element"}}}
    \cup NonObjects

\* Sequences of at most n elements of a set.
Lists(S, n) == UNION {[1..k -> S] : k \in 0..n}

\* The longest "actions" array of a sequence.
MaxItems == 2

\* The longest "value" string of a key action.
MaxKeyLen == 3

KeyChars == {"a", "b"}

RECURSIVE StringsOfLen(_)
StringsOfLen(n) ==
    IF n = 0 THEN {""}
    ELSE {str \o c : str \in StringsOfLen(n - 1), c \in KeyChars}

KeyStrings == UNION {StringsOfLen(n) : n \in 0..MaxKeyLen}

\* Decoded (valid) action items and sequences.
PauseItem(d) == [item |-> "General", general |-> [general |-> "Pause", pause |-> [duration |-> d]]]

KeyUpItem(c) == [item |-> "Key", keyaction |-> [key |-> "Up", up |-> [value |-> c]]]

KeyDownItem(c) == [item |-> "Key", keyaction |-> [key |-> "Down", down |-> [value |-> c]]]

PointerItem(a) == [item |-> "Pointer", pointeraction |-> a]

MoveActions ==
    {[duration |-> None, origin |-> PointerOrigin_Viewport, x |-> None, y |-> None],
     [duration |-> Some(4), origin |-> PointerOrigin_Pointer, x |-> Some(-3), y |-> Some(5)],
     [duration |-> None, origin |-> PointerOrigin_Element(WebElement_new("e1")),
      x |-> Some(0), y |-> None],
     [duration |-> Some(0), origin |-> PointerOrigin_Element(WebElement_new("e2")),
      x |-> None, y |-> Some(-1)]}

NullItems == {PauseItem(d) : d \in {0, 4}}

KeyItems == NullItems \cup {KeyUpItem(c) : c \in KeyChars} \cup {KeyDownItem(c) : c \in KeyChars}

PointerItems ==
    NullItems
    \cup {PointerItem([pointer |-> "Up", up |-> [button |-> 0]]),
          PointerItem([pointer |-> "Down", down |-> [button |-> 2]]),
          PointerItem([pointer |-> "Cancel"])}
    \cup {PointerItem([pointer |-> "Move", move |-> m]) : m \in MoveActions}

SequenceIds == {None, Some("a")}

ValidSequences ==
    {[id |-> id, actions |-> [type |-> "Null", actions |-> l]] :
        id \in SequenceIds, l \in Lists(NullItems, MaxItems)}
    \cup {[id |-> id, actions |-> [type |-> "Key", actions |-> l]] :
        id \in SequenceIds, l \in Lists(KeyItems, MaxItems)}
    \cup {[id |-> id,
           actions |-> [type |-> "Pointer", parameters |-> [pointer_type |-> pt],
                        actions |-> l]] :
        id \in SequenceIds, pt \in {"Mouse", "Pen", "Touch"},
        l \in Lists(PointerItems, MaxItems)}

\* Raw bodies of key actions: "value" absent, a string of any length, not a string.
KeyBodies ==
    {JObj(o) : o \in UNION {
        [K -> {JStr(str) : str \in KeyStrings} \cup {JInt(1), JNull}] :
        K \in SUBSET {"value"}}}

\* Raw items: the encodings of valid items, and malformed ones.
Raw(fields) == JObj(fields)

RawItems ==
    {PointerActionItem_to_value(i) :
        i \in {PauseItem(4),
               PointerItem([pointer |-> "Up", up |-> [button |-> 0]]),
               PointerItem([pointer |-> "Cancel"]),
               PointerItem([pointer |-> "Move",
                            move |-> [duration |-> Some(4), origin |-> PointerOrigin_Pointer,
                                      x |-> Some(-3), y |-> Some(5)]])}}
    \cup {KeyActionItem_to_value(i) : i \in {KeyUpItem("a"), KeyDownItem("b")}}
    \cup {JInt(1),
          Raw(EmptyMap),
          Raw([type |-> JInt(5)]),
          Raw([type |-> JStr("bogus")]),
          Raw([type |-> JStr("pause"), duration |-> JInt(-1)]),
          Raw([type |-> JStr("keyDown")]),
          Raw([type |-> JStr("keyDown"), value |-> JStr("ab")]),
          Raw([type |-> JStr("pointerUp")]),
          Raw([type |-> JStr("pointerDown"), button |-> JStr("a")]),
          Raw([type |-> JStr("pointerMove"), x |-> JFloat(1)])}

RawParameters ==
    {JInt(1), JObj(EmptyMap)}
    \cup {JObj([pointerType |-> v]) : v \in {JStr("pen"), JStr("bogus"), JInt(1)}}

\* A field that is absent, or present with one of the values.
Field(key, vals) == {EmptyMap} \cup {insert(EmptyMap, key, v) : v \in vals}

\* Raw sequences: every combination of the header fields over a few "actions"
\* values, and every short array of raw items under each of the three types.
RawSequences ==
    {JObj(ty @@ id @@ pa @@ ac) :
        ty \in Field("type", {JStr("none"), JStr("key"), JStr("pointer"),
                              JStr("bogus"), JInt(1)}),
        id \in Field("id", {JStr("a"), JInt(1), JNull}),
        pa \in Field("parameters", RawParameters),
        ac \in Field("actions", {JInt(1), JArr(<< >>), JArr(<<JInt(1)>>),
                                 JArr(<<Raw([type |-> JStr("pause")])>>)})}
    \cup {JObj([type |-> JStr(ty), actions |-> JArr(l)]) :
            ty \in {"none", "key", "pointer"}, l \in Lists(RawItems, MaxItems)}
    \cup {JObj([type |-> JStr("pointer"), parameters |-> JObj(EmptyMap),
                actions |-> JArr(l)]) : l \in Lists(RawItems, MaxItems)}
    \cup {JNull, JStr("a")}

\* Sequences for the derived decoder: the raw sequences, and the variant
\* names in lower case with items in the form the derived item decoders read.
DerivedItems ==
    {Raw([type |-> JStr("Pause"), duration |-> JInt(1)]),
     Raw([type |-> JStr("pause"), duration |-> JInt(1)]),
     Raw([type |-> JStr("keyDown"), value |-> JStr("a")]),
     Raw([type |-> JStr("pointerUp"), button |-> JInt(0)]),
     Raw([type |-> JStr("pointerMove"), origin |-> JNull, x |-> JInt(-1)]),
     Raw([type |-> JStr("pointerMove"), origin |-> JStr("viewport")]),
     Raw([type |-> JStr("pointerCancel")])}

DeserializeInputs ==
    RawSequences
    \cup {JObj(entry("type", JStr(ty)) @@ id @@ pa @@ entry("actions", JArr(l))) :
             ty \in {"none", "null", "key", "pointer", "Null", "NONE"},
             id \in Field("id", {JStr("a"), JNull}),
             pa \in Field("parameters", {JObj([pointerType |-> JStr("pen")])}),
             l \in Lists(DerivedItems, 1)}

\* Bodies of PerformActions: "actions" absent, not an array, or short arrays.
SampleSequences ==
    {JInt(1),
     Raw([type |-> JStr("bogus"), actions |-> JArr(<< >>)]),
     Raw([type |-> JStr("none"), actions |-> JArr(<<Raw([type |-> JStr("pause")])>>)]),
     Raw([type |-> JStr("key"), id |-> JStr("a"),
          actions |-> JArr(<<Raw([type |-> JStr("keyDown"), value |-> JStr("a")])>>)]),
     Raw([type |-> JStr("key"), actions |-> JArr(<<Raw([type |-> JStr("keyDown")])>>)]),
     Raw([type |-> JStr("pointer"), actions |-> JArr(<<Raw([type |-> JStr("pointerCancel")])>>)]),
     Raw([type |-> JStr("key"),
          actions |-> JArr(<<Raw([type |-> JStr("keyDown"), value |-> JStr("a")]),
                             Raw([type |-> JStr("keyUp"), value |-> JStr("b")])>>)])}

\* The longest "actions" array of a PerformActions body.
MaxSequences == 2

ActionsInputs ==
    {JObj([actions |-> JArr(l)]) : l \in Lists(SampleSequences, MaxSequences)}
    \cup {JObj(EmptyMap), JObj([actions |-> JInt(1)]), JObj([actions |-> JNull])}
    \cup NonObjects

\* Responses.
MaxHandles == 2

Handles == {"w1", "w2"}

CloseWindowResponses ==
    {[variant |-> "CloseWindow", x |-> [window_handles |-> h]] :
        h \in Lists(Handles, MaxHandles)}

MaxCookies == 2

Cookies ==
    {[name |-> "n", value |-> "v", path |-> p, domain |-> None, expiry |-> e,
      secure |-> s, httpOnly |-> FALSE] :
        p \in {None, Some("/")}, e \in {None, Some(Date_new(5))}, s \in BOOLEAN}

CookieResponses ==
    {[variant |-> "Cookie", x |-> [value |-> c]] : c \in Lists(Cookies, MaxCookies)}

GenericValues ==
    Scalars \cup {JArr(<< >>), JArr(<<JInt(1), JStr("a")>>), JObj(EmptyMap),
                  JObj(entry("value", JInt(1))), JObj(entry("a", JNull)),
                  JObj(entry("value", JObj(entry("value", JStr("a")))))}

GenericResponses == {[variant |-> "Generic", x |-> [value |-> v]] : v \in GenericValues}

NewSessionResponses ==
    {[variant |-> "NewSession", x |-> [sessionId |-> id, capabilities |-> c]] :
        id \in Ids, c \in {JObj(EmptyMap), JObj(entry("browserName", JStr("f")))}}

TimeoutsResponses ==
    {[variant |-> "Timeouts", x |-> [script |-> a, pageLoad |-> b, implicit |-> c]] :
        a \in {0, 30}, b \in {0, 30}, c \in {0, 30}}

WindowRectResponses ==
    {[variant |-> "WindowRect", x |-> [x |-> a, y |-> b, width |-> c, height |-> d]] :
        a \in {-1, 0}, b \in {-1, 0}, c \in {0, 2}, d \in {0, 2}}

ElementRectResponses ==
    {[variant |-> "ElementRect", x |-> [x |-> a, y |-> b, width |-> c, height |-> d]] :
        a \in {0, 1}, b \in {0, 1}, c \in {0, 1}, d \in {0, 1}}

EmptyResponses == {[variant |-> "DeleteSession"], [variant |-> "Void"]}

\* Carriers of an element reference.
Elements == {WebElement_new(id) : id \in Ids}

PointerOrigins ==
    {PointerOrigin_Viewport, PointerOrigin_Pointer}
    \cup {PointerOrigin_Element(e) : e \in Elements}

\* Origins as they arrive: the two words, another word, objects with and
\* without the reserved key, and values that are neither.
PointerOriginInputs ==
    {JStr("viewport"), JStr("pointer"), JStr("element")}
    \cup {JObj(o) : o \in Field(ELEMENT_KEY, Scalars \cup {JStr(id) : id \in Ids})}
    \cup {JObj(insert(o, "other", JInt(1))) :
              o \in Field(ELEMENT_KEY, Scalars \cup {JStr(id) : id \in Ids})}
    \cup {JNull, JInt(0), JArr(<< >>)}

\* Strategies as they arrive: the four wire strings, strings near them, and
\* values that are not strings.
LocatorStrategies == {"CSSSelector", "LinkText", "PartialLinkText", "XPath"}

LocatorStrategyInputs ==
    {JStr(x) : x \in {"css selector", "link text", "partial link text", "xpath",
                      "", "id", "css", "XPath", "xpath ", "link", "partial link text!"}}
    \cup Scalars \cup {JArr(<< >>), JObj(EmptyMap)}

\* Values of a numeric field: the integers of a span around zero, a float,
\* and values that are not numbers.
NumberSpan == 2

NumericValues ==
    {JInt(n) : n \in (0 - NumberSpan)..NumberSpan}
    \cup {JFloat(1), JStr("1"), JNull, JBool(TRUE), JArr(<< >>), JObj(EmptyMap)}

PauseBodies ==
    {JObj(entry("type", JStr("pause")) @@ f) : f \in Field("duration", NumericValues)}

ButtonBodies == {JObj(f) : f \in Field("button", NumericValues)}

MoveBodies ==
    {JObj(d @@ x @@ y) : d \in Field("duration", NumericValues),
                         x \in Field("x", NumericValues),
                         y \in Field("y", NumericValues)}

FrameIds ==
    {FrameId_Null} \cup {FrameId_Short(n) : n \in {0, 1, U16_MAX}}
    \cup {FrameId_Element(e) : e \in Elements}

Screenshots == {[element |-> None]} \cup {[element |-> Some(e)] : e \in Elements}

\* What the router hands to from_http. Every route tag, and an extension
\* route for each injected decoder.
RouteTags ==
    {"NewSession", "DeleteSession", "Get", "GetCurrentUrl", "GoBack", "GoForward",
     "Refresh", "GetTitle", "GetPageSource", "GetWindowHandle", "GetWindowHandles",
     "CloseWindow", "GetTimeouts", "SetTimeouts", "GetWindowRect",
     "GetWindowPosition", "GetWindowSize", "SetWindowRect", "SetWindowPosition",
     "SetWindowSize", "MaximizeWindow", "SwitchToWindow", "SwitchToFrame",
     "SwitchToParentFrame", "FindElement", "FindElements", "FindElementElement",
     "FindElementElements", "GetActiveElement", "IsDisplayed", "IsSelected",
     "GetElementAttribute", "GetElementProperty", "GetCSSValue", "GetElementText",
     "GetElementTagName", "GetElementRect", "IsEnabled", "ElementClick",
     "ElementTap", "ElementClear", "ElementSendKeys", "ExecuteScript",
     "ExecuteAsyncScript", "GetCookies", "GetNamedCookie", "AddCookie",
     "DeleteCookies", "DeleteCookie", "PerformActions", "ReleaseActions",
     "DismissAlert", "AcceptAlert", "GetAlertText", "SendAlertText",
     "TakeScreenshot", "TakeElementScreenshot", "Status"}

Routes ==
    {[tag |-> t] : t \in RouteTags}
    \cup {[tag |-> "Extension", extension |-> e] : e \in Extensions}

\* The captures of a URL: any of the four names, each with its text.
CaptureNames == {"sessionId", "elementId", "name", "propertyName"}

CaptureText ==
    [sessionId |-> "s1", elementId |-> "e1", name |-> "n", propertyName |-> "p"]

CaptureSets == {[k \in names |-> CaptureText[k]] : names \in SUBSET CaptureNames}

\* A body every decoder but the timeouts one accepts, as a value.
FullBody ==
    JObj([url |-> JStr("a"), handle |-> JStr("a"), id |-> JNull,
          using |-> JStr("xpath"), value |-> JStr("a"), text |-> JStr("a"),
          script |-> JStr("a"), args |-> JArr(<< >>),
          cookie |-> JObj([name |-> JStr("a"), value |-> JStr("a")]),
          actions |-> JArr(<< >>), capabilities |-> JObj(EmptyMap),
          context |-> JStr("a")])

\* Raw body texts: objects, JSON of the other top-level types, texts with a
\* syntax error on the first or on a later line, and the empty text.
ObjectTexts ==
    {"{}", " { \"url\" : \"a\" }\n", "{\"script\":2}", value_to_string(FullBody),
     "{\"actions\":[{\"type\":\"bogus\",\"actions\":[]}]}"}

OtherJsonTexts == {"[]", "[1,2]", "\"a\"", "1", "-1.0", "true", "null"}

BrokenTexts == {"", "{", "{\"url\":}", "{}x", "{\n\"url\" 1}", "nul", "[1,\n\n 2"}

RawBodies == ObjectTexts \cup OtherJsonTexts \cup BrokenTexts

----------------------------------------------------------------------------
(* Operations.  Each applies one function of the program to one input.     *)

Init ==
    /\ op = "idle"
    /\ input = JNull
    /\ output = JNull

FrameIdFromJson ==
    /\ op = "idle"
    /\ \E data \in FrameIdInputs :
          /\ op' = "FrameId::from_json"
          /\ input' = data
          /\ output' = FrameId_from_json(data)

GetFromJson ==
    /\ op = "idle"
    /\ \E body \in GetInputs :
          /\ op' = "GetParameters::from_json"
          /\ input' = body
          /\ output' = GetParameters_from_json(body)

TimeoutsFromJson ==
    /\ op = "idle"
    /\ \E body \in TimeoutsInputs :
          /\ op' = "TimeoutsParameters::from_json"
          /\ input' = body
          /\ output' = TimeoutsParameters_from_json(body)

WindowRectFromJson ==
    /\ op = "idle"
    /\ \E body \in WindowRectInputs :
          /\ op' = "WindowRectParameters::from_json"
          /\ input' = body
          /\ output' = WindowRectParameters_from_json(body)

SwitchToWindowFromJson ==
    /\ op = "idle"
    /\ \E body \in SwitchToWindowInputs :
          /\ op' = "SwitchToWindowParameters::from_json"
          /\ input' = body
          /\ output' = SwitchToWindowParameters_from_json(body)

LocatorFromJson ==
    /\ op = "idle"
    /\ \E body \in LocatorInputs :
          /\ op' = "LocatorParameters::from_json"
          /\ input' = body
          /\ output' = LocatorParameters_from_json(body)

SwitchToFrameFromJson ==
    /\ op = "idle"
    /\ \E body \in SwitchToFrameInputs :
          /\ op' = "SwitchToFrameParameters::from_json"
          /\ input' = body
          /\ output' = SwitchToFrameParameters_from_json(body)

SendKeysFromJson ==
    /\ op = "idle"
    /\ \E body \in SendKeysInputs :
          /\ op' = "SendKeysParameters::from_json"
          /\ input' = body
          /\ output' = SendKeysParameters_from_json(body)

JavascriptFromJson ==
    /\ op = "idle"
    /\ \E body \in JavascriptInputs :
          /\ op' = "JavascriptCommandParameters::from_json"
          /\ input' = body
          /\ output' = JavascriptCommandParameters_from_json(body)

GetNamedCookieFromJson ==
    /\ op = "idle"
    /\ \E body \in GetNamedCookieInputs :
          /\ op' = "GetNamedCookieParameters::from_json"
          /\ input' = body
          /\ output' = GetNamedCookieParameters_from_json(body)

AddCookieFromJson ==
    /\ op = "idle"
    /\ \E body \in AddCookieInputs :
          /\ op' = "AddCookieParameters::from_json"
          /\ input' = body
          /\ output' = AddCookieParameters_from_json(body)

TakeScreenshotFromJson ==
    /\ op = "idle"
    /\ \E body \in TakeScreenshotInputs :
          /\ op' = "TakeScreenshotParameters::from_json"
          /\ input' = body
          /\ output' = TakeScreenshotParameters_from_json(body)

ActionSequenceFromJson ==
    /\ op = "idle"
    /\ \E body \in RawSequences :
          /\ op' = "ActionSequence::from_json"
          /\ input' = body
          /\ output' = ActionSequence_from_json(body)

ActionsParametersFromJson ==
    /\ op = "idle"
    /\ \E body \in ActionsInputs :
          /\ op' = "ActionsParameters::from_json"
          /\ input' = body
          /\ output' = ActionsParameters_from_json(body)

ActionSequenceDeserialize ==
    /\ op = "idle"
    /\ \E body \in DeserializeInputs :
          /\ op' = "ActionSequence::deserialize"
          /\ input' = body
          /\ output' = ActionSequence_deserialize(body)

KeyUpFromJson ==
    /\ op = "idle"
    /\ \E body \in KeyBodies :
          /\ op' = "KeyUpAction::from_json"
          /\ input' = body
          /\ output' = KeyUpAction_from_json(body)

KeyDownFromJson ==
    /\ op = "idle"
    /\ \E body \in KeyBodies :
          /\ op' = "KeyDownAction::from_json"
          /\ input' = body
          /\ output' = KeyDownAction_from_json(body)

\* Value::from(&s) followed by ActionSequence::from_json.
decode_encoded(seq, encoded) ==
    [encoded |-> encoded, decoded |-> ActionSequence_from_json(encoded)]

round_trip(seq) == decode_encoded(seq, ActionSequence_to_value(seq))

ActionSequenceRoundTrip ==
    /\ op = "idle"
    /\ \E seq \in ValidSequences :
          /\ op' = "ActionSequence::round_trip"
          /\ input' = seq
          /\ output' = round_trip(seq)

\* Value::from of a carrier of an element reference, then its from_json.
PauseFromJson ==
    /\ op = "idle"
    /\ \E body \in PauseBodies :
          /\ op' = "PauseAction::from_json"
          /\ input' = body
          /\ output' = PauseAction_from_json(body)

PointerUpFromJson ==
    /\ op = "idle"
    /\ \E body \in ButtonBodies :
          /\ op' = "PointerUpAction::from_json"
          /\ input' = body
          /\ output' = PointerUpAction_from_json(body)

PointerDownFromJson ==
    /\ op = "idle"
    /\ \E body \in ButtonBodies :
          /\ op' = "PointerDownAction::from_json"
          /\ input' = body
          /\ output' = PointerDownAction_from_json(body)

PointerMoveFromJson ==
    /\ op = "idle"
    /\ \E body \in MoveBodies :
          /\ op' = "PointerMoveAction::from_json"
          /\ input' = body
          /\ output' = PointerMoveAction_from_json(body)

PointerOriginFromJson ==
    /\ op = "idle"
    /\ \E body \in PointerOriginInputs :
          /\ op' = "PointerOrigin::from_json"
          /\ input' = body
          /\ output' = PointerOrigin_from_json(body)

LocatorStrategyFromJson ==
    /\ op = "idle"
    /\ \E body \in LocatorStrategyInputs :
          /\ op' = "LocatorStrategy::from_json"
          /\ input' = body
          /\ output' = LocatorStrategy_from_json(body)

decode_strategy(encoded) ==
    [encoded |-> encoded, decoded |-> LocatorStrategy_from_json(encoded)]

LocatorStrategyToValue ==
    /\ op = "idle"
    /\ \E strategy \in LocatorStrategies :
          /\ op' = "LocatorStrategy::to_value"
          /\ input' = [strategy |-> strategy]
          /\ output' = decode_strategy(LocatorStrategy_to_value(strategy))

decode_element(encoded) ==
    [encoded |-> encoded, decoded |-> WebElement_from_json(encoded)]

WebElementToValue ==
    /\ op = "idle"
    /\ \E elem \in Elements :
          /\ op' = "WebElement::to_value"
          /\ input' = elem
          /\ output' = decode_element(WebElement_to_value(elem))

decode_origin(encoded) ==
    [encoded |-> encoded, decoded |-> PointerOrigin_from_json(encoded)]

PointerOriginToValue ==
    /\ op = "idle"
    /\ \E origin \in PointerOrigins :
          /\ op' = "PointerOrigin::to_value"
          /\ input' = origin
          /\ output' = decode_origin(PointerOrigin_to_value(origin))

decode_frame_id(encoded) ==
    [encoded |-> encoded, decoded |-> FrameId_from_json(encoded)]

FrameIdToValue ==
    /\ op = "idle"
    /\ \E frame_id \in FrameIds :
          /\ op' = "FrameId::to_value"
          /\ input' = frame_id
          /\ output' = decode_frame_id(FrameId_to_value(frame_id))

decode_screenshot(encoded) ==
    [encoded |-> encoded, decoded |-> TakeScreenshotParameters_from_json(encoded)]

TakeScreenshotToValue ==
    /\ op = "idle"
    /\ \E params \in Screenshots :
          /\ op' = "TakeScreenshotParameters::to_value"
          /\ input' = params
          /\ output' = decode_screenshot(TakeScreenshotParameters_to_value(params))

\* WebDriverResponse::to_json_string.
encode(self) ==
    /\ op' = "WebDriverResponse::to_json_string"
    /\ input' = self
    /\ output' = to_json_string(self)

ToJsonString ==
    /\ op = "idle"
    /\ \/ \E self \in CloseWindowResponses : encode(self)
       \/ \E self \in CookieResponses : encode(self)
       \/ \E self \in EmptyResponses : encode(self)
       \/ \E self \in ElementRectResponses : encode(self)
       \/ \E self \in GenericResponses : encode(self)
       \/ \E self \in NewSessionResponses : encode(self)
       \/ \E self \in TimeoutsResponses : encode(self)
       \/ \E self \in WindowRectResponses : encode(self)

DecodeBody ==
    /\ op = "idle"
    /\ \E raw_body \in RawBodies, requires_body \in BOOLEAN :
          /\ op' = "WebDriverMessage::decode_body"
          /\ input' = [raw_body |-> raw_body, requires_body |-> requires_body]
          /\ output' = decode_body(raw_body, requires_body)

FromHttp ==
    /\ op = "idle"
    /\ \E match_type \in Routes, params \in CaptureSets,
          raw_body \in RawBodies, requires_body \in BOOLEAN :
          /\ op' = "WebDriverMessage::from_http"
          /\ input' = [match_type |-> match_type, params |-> params,
                       raw_body |-> raw_body, requires_body |-> requires_body]
          /\ output' = from_http(match_type, params, raw_body, requires_body)

NextParams ==
    \/ FrameIdFromJson
    \/ GetFromJson
    \/ TimeoutsFromJson
    \/ WindowRectFromJson
    \/ SwitchToWindowFromJson
    \/ LocatorFromJson
    \/ SwitchToFrameFromJson
    \/ SendKeysFromJson
    \/ JavascriptFromJson
    \/ GetNamedCookieFromJson
    \/ AddCookieFromJson
    \/ TakeScreenshotFromJson
    \/ LocatorStrategyFromJson
    \/ LocatorStrategyToValue
    \/ WebElementToValue
    \/ PointerOriginToValue
    \/ FrameIdToValue
    \/ TakeScreenshotToValue

SpecParams == Init /\ [][NextParams]_vars

NextActions ==
    \/ ActionSequenceFromJson
    \/ ActionsParametersFromJson
    \/ ActionSequenceDeserialize
    \/ KeyUpFromJson
    \/ KeyDownFromJson
    \/ PointerOriginFromJson
    \/ PauseFromJson
    \/ PointerUpFromJson
    \/ PointerDownFromJson
    \/ PointerMoveFromJson
    \/ ActionSequenceRoundTrip

SpecActions == Init /\ [][NextActions]_vars

NextResponse == ToJsonString

SpecResponse == Init /\ [][NextResponse]_vars

NextHttp == DecodeBody \/ FromHttp

SpecHttp == Init /\ [][NextHttp]_vars

Next == NextParams \/ NextActions \/ NextResponse \/ NextHttp

Spec == Init /\ [][Next]_vars

----------------------------------------------------------------------------
(* Properties.                                                             *)

ToJsonStringOp == "WebDriverResponse::to_json_string"

\* The decoder an operation applies.
Decode(name, body) ==
    CASE name = "GetParameters::from_json" -> GetParameters_from_json(body)
      [] name = "TimeoutsParameters::from_json" -> TimeoutsParameters_from_json(body)
      [] name = "WindowRectParameters::from_json" -> WindowRectParameters_from_json(body)
      [] name = "SwitchToWindowParameters::from_json" ->
           SwitchToWindowParameters_from_json(body)
      [] name = "LocatorParameters::from_json" -> LocatorParameters_from_json(body)
      [] name = "SwitchToFrameParameters::from_json" ->
           SwitchToFrameParameters_from_json(body)
      [] name = "SendKeysParameters::from_json" -> SendKeysParameters_from_json(body)
      [] name = "JavascriptCommandParameters::from_json" ->
           JavascriptCommandParameters_from_json(body)
      [] name = "GetNamedCookieParameters::from_json" ->
           GetNamedCookieParameters_from_json(body)
      [] name = "AddCookieParameters::from_json" -> AddCookieParameters_from_json(body)
      [] name = "TakeScreenshotParameters::from_json" ->
           TakeScreenshotParameters_from_json(body)
      [] name = "ActionsParameters::from_json" -> ActionsParameters_from_json(body)
      [] name = "ActionSequence::from_json" -> ActionSequence_from_json(body)
      [] name = "KeyUpAction::from_json" -> KeyUpAction_from_json(body)
      [] name = "KeyDownAction::from_json" -> KeyDownAction_from_json(body)

\* <<decoder, enclosing object ("" for the body itself), field>>: the fields
\* a decoder requires.
RequiredFields ==
    {<<"GetParameters::from_json", "", "url">>,
     <<"SwitchToWindowParameters::from_json", "", "handle">>,
     <<"LocatorParameters::from_json", "", "using">>,
     <<"LocatorParameters::from_json", "", "value">>,
     <<"SwitchToFrameParameters::from_json", "", "id">>,
     <<"SendKeysParameters::from_json", "", "text">>,
     <<"JavascriptCommandParameters::from_json", "", "script">>,
     <<"JavascriptCommandParameters::from_json", "", "args">>,
     <<"GetNamedCookieParameters::from_json", "", "name">>,
     <<"AddCookieParameters::from_json", "", "cookie">>,
     <<"AddCookieParameters::from_json", "cookie", "name">>,
     <<"AddCookieParameters::from_json", "cookie", "value">>,
     <<"ActionsParameters::from_json", "", "actions">>,
     <<"ActionSequence::from_json", "", "type">>,
     <<"ActionSequence::from_json", "", "actions">>,
     <<"KeyUpAction::from_json", "", "value">>,
     <<"KeyDownAction::from_json", "", "value">>}

\* The fields a decoder reads: the required ones and the optional ones.
TypedFields ==
    RequiredFields \cup
    {<<"TimeoutsParameters::from_json", "", "script">>,
     <<"TimeoutsParameters::from_json", "", "pageLoad">>,
     <<"TimeoutsParameters::from_json", "", "implicit">>,
     <<"WindowRectParameters::from_json", "", "x">>,
     <<"WindowRectParameters::from_json", "", "y">>,
     <<"WindowRectParameters::from_json", "", "width">>,
     <<"WindowRectParameters::from_json", "", "height">>,
     <<"AddCookieParameters::from_json", "cookie", "path">>,
     <<"AddCookieParameters::from_json", "cookie", "domain">>,
     <<"AddCookieParameters::from_json", "cookie", "expiry">>,
     <<"AddCookieParameters::from_json", "cookie", "secure">>,
     <<"AddCookieParameters::from_json", "cookie", "httpOnly">>,
     <<"TakeScreenshotParameters::from_json", "", "element">>,
     <<"ActionSequence::from_json", "", "id">>}

\* A value of the type the decoder expects in the field.
Sample(name, key) ==
    CASE key \in {"x", "y", "width", "height", "pageLoad", "implicit", "expiry"} -> JInt(0)
      [] key = "script" /\ name = "TimeoutsParameters::from_json" -> JInt(0)
      [] key \in {"secure", "httpOnly"} -> JBool(TRUE)
      [] key \in {"args", "actions"} -> JArr(<< >>)
      [] key = "cookie" ->
           JObj(insert(insert(EmptyMap, "name", JStr("a")), "value", JStr("a")))
      [] key = "element" -> WebElement_to_value(WebElement_new("e1"))
      [] key = "using" -> JStr("xpath")
      [] key = "type" -> JStr("none")
      [] key = "id" /\ name = "SwitchToFrameParameters::from_json" -> JNull
      [] OTHER -> JStr("a")

\* The JSON types the decoder accepts in the field.
Accepts(name, key) ==
    IF key = "id" /\ name = "SwitchToFrameParameters::from_json"
    THEN {"num", "null", "obj"}
    ELSE {Sample(name, key).t}

\* The object that holds the field, and the body with the field set to val.
in_scope(body, scope) ==
    is_object(body) /\ (scope = "" \/ (has(body, scope) /\ is_object(get(body, scope))))

target(body, scope) == IF scope = "" THEN body ELSE get(body, scope)

with(body, scope, key, val) ==
    IF scope = ""
    THEN JObj(insert(body.o, key, val))
    ELSE JObj(insert(body.o, scope, JObj(insert(get(body, scope).o, key, val))))

\* The body is well formed but for the field: a good value there decodes.
only_fault(name, body, scope, key) ==
    Decode(name, with(body, scope, key, Sample(name, key))).ok

\* The words a message may use for a field instead of its key.
in_words(key) ==
    CASE key = "script" -> "Script"
      [] key = "pageLoad" -> "Page load"
      [] key = "implicit" -> "Implicit"
      [] key = "using" -> "strategy"
      [] OTHER -> key

named_invalid_argument(result, key) ==
    /\ ~result.ok
    /\ result.status = "InvalidArgument"
    /\ Mentions(result.msg, key) \/ Mentions(result.msg, in_words(key))

\* C1: for every valid ActionSequence s (null, key or pointer; id present or
\* absent), decoding Value::from(&s) succeeds and gives back a value equal to s.
RoundTripLaw ==
    op = "ActionSequence::round_trip" => output.decoded = Ok(input)

\* C2 as amended: to_json_string of DeleteSession and of Void is the empty
\* object as body, wrapped like any other variant: the text {"value": {}}.
EmptyBodyIsWrapped ==
    (op = ToJsonStringOp /\ input.variant \in {"DeleteSession", "Void"})
        => /\ output = "{\"value\": {}}"
           /\ from_str(output) = Ok(JObj(entry("value", JObj(EmptyMap))))

EmptyBodyIsWrappedReached ==
    /\ op = ToJsonStringOp
    /\ input.variant = "DeleteSession"
    /\ output = "{\"value\": {}}"

\* C2 as stated: to_json_string of DeleteSession and of Void is the literal
\* empty object {} with no "value" key.
EmptyBodyIsBare ==
    (op = ToJsonStringOp /\ input.variant \in {"DeleteSession", "Void"})
        => output = "{}"

\* C3: each of x, y, width, height decodes on its own: an integer n to
\* Some(n), an absent key and a null both to None, without error.
nullable(body, key) ==
    IF has(body, key) /\ get(body, key) # JNull THEN Some(get(body, key).n) ELSE None

WindowRectNullable ==
    (/\ op = "WindowRectParameters::from_json"
     /\ is_object(input)
     /\ \A key \in {"x", "y"} :
           has(input, key) => (get(input, key) = JNull \/ is_i64(get(input, key)))
     /\ \A key \in {"width", "height"} :
           has(input, key) => (get(input, key) = JNull \/ is_u64(get(input, key))))
        => /\ output.ok
           /\ \A key \in {"x", "y", "width", "height"} :
                 output.val[key] = nullable(input, key)

\* C4: a body that lacks a required field X is rejected with InvalidArgument
\* and a message that mentions X, for every decoder and required field.
MissingFieldNamed ==
    \A c \in RequiredFields :
        (/\ op = c[1]
         /\ in_scope(input, c[2])
         /\ ~has(target(input, c[2]), c[3])
         /\ only_fault(op, input, c[2], c[3]))
            => named_invalid_argument(output, c[3])

\* C5: a field present with a value of the wrong JSON type is rejected with
\* InvalidArgument and a message that names that field.
WrongTypeNamed ==
    \A c \in TypedFields :
        (/\ op = c[1]
         /\ in_scope(input, c[2])
         /\ has(target(input, c[2]), c[3])
         /\ get(target(input, c[2]), c[3]).t \notin Accepts(op, c[3])
         /\ only_fault(op, input, c[2], c[3]))
            => named_invalid_argument(output, c[3])

\* C6: every carrier of an element reference encodes it as the object whose
\* only key is ELEMENT_KEY and whose value is the id, and decodes back to itself.
CarrierOps ==
    {"WebElement::to_value", "PointerOrigin::to_value", "FrameId::to_value",
     "TakeScreenshotParameters::to_value"}

carries(name, carrier) ==
    CASE name = "WebElement::to_value" -> TRUE
      [] name = "PointerOrigin::to_value" -> carrier.origin = "Element"
      [] name = "FrameId::to_value" -> carrier.frame = "Element"
      [] name = "TakeScreenshotParameters::to_value" -> carrier.element.some

carried(name, carrier) ==
    CASE name = "WebElement::to_value" -> carrier
      [] name = "PointerOrigin::to_value" -> carrier.e
      [] name = "FrameId::to_value" -> carrier.e
      [] name = "TakeScreenshotParameters::to_value" -> carrier.element.v

reference_of(name, encoded) ==
    IF name = "TakeScreenshotParameters::to_value" THEN get(encoded, "element") ELSE encoded

ElementWireForm ==
    (op \in CarrierOps /\ carries(op, input))
        => /\ reference_of(op, output.encoded)
                = JObj(entry("element-6066-11e4-a52e-4f735466cecf",
                             JStr(carried(op, input).id)))
           /\ output.decoded = Ok(input)

\* C7: Generic and Cookie are emitted as their own serialization, which has
\* the payload under one top-level "value" key; CloseWindow, ElementRect,
\* NewSession, Timeouts and WindowRect are emitted as {"value": <body>}.
payload(self) ==
    CASE self.variant = "CloseWindow" ->
           JArr([i \in 1..Len(self.x.window_handles) |-> JStr(self.x.window_handles[i])])
      [] self.variant = "Cookie" ->
           JArr([i \in 1..Len(self.x.value) |-> Cookie_value(self.x.value[i])])
      [] self.variant = "ElementRect" -> ElementRectResponse_value(self.x)
      [] self.variant = "Generic" -> self.x.value
      [] self.variant = "NewSession" -> NewSessionResponse_value(self.x)
      [] self.variant = "Timeouts" -> TimeoutsResponse_value(self.x)
      [] self.variant = "WindowRect" -> WindowRectResponse_value(self.x)

EnvelopeRule ==
    (op = ToJsonStringOp /\ input.variant \notin {"DeleteSession", "Void"})
        => /\ from_str(output) = Ok(JObj(entry("value", payload(input))))
           /\ input.variant \in {"Generic", "Cookie"}
                 => output = response_obj(input)
           /\ input.variant \notin {"Generic", "Cookie"}
                 => output = "{\"value\": " \o response_obj(input) \o "}"

EnvelopeRuleReached ==
    /\ op = ToJsonStringOp
    /\ input.variant = "Generic"
    /\ input.x.value = JObj(entry("value", JInt(1)))
    /\ output = "{\"value\":{\"value\":1}}"

\* C8: a CloseWindow response with handles h encodes as {"value": h}: the
\* array of exactly those strings, in order, directly under "value".
handles_under_value(parsed, h) ==
    /\ parsed.ok
    /\ is_object(parsed.val)
    /\ DOMAIN parsed.val.o = {"value"}
    /\ is_array(get(parsed.val, "value"))
    /\ Len(get(parsed.val, "value").a) = Len(h)
    /\ \A i \in 1..Len(h) : get(parsed.val, "value").a[i] = JStr(h[i])

CloseWindowUnderValue ==
    (op = ToJsonStringOp /\ input.variant = "CloseWindow")
        => handles_under_value(from_str(output), input.x.window_handles)

CloseWindowUnderValueReached ==
    /\ op = ToJsonStringOp
    /\ input.variant = "CloseWindow"
    /\ input.x.window_handles = <<"w2", "w1">>
    /\ output = "{\"value\": [\"w2\",\"w1\"]}"

\* C9: FrameId::from_json of a number n is Short(n) exactly when n is an
\* integer with 0 <= n <= 65535; any other number is a NoSuchFrame error,
\* never InvalidArgument and never a truncated index.
FrameIdRange ==
    (op = "FrameId::from_json" /\ is_number(input))
        => IF input.k = "int" /\ 0 <= input.n /\ input.n <= 65535
           THEN output = Ok(FrameId_Short(input.n))
           ELSE ~output.ok /\ output.status = "NoSuchFrame"

FrameIdRangeReached ==
    /\ op = "FrameId::from_json"
    /\ input = JInt(65536)
    /\ ~output.ok
    /\ output.status = "NoSuchFrame"

\* C10: KeyUpAction::from_json and KeyDownAction::from_json succeed exactly
\* when "value" is a string of one character, which they return; the empty
\* string and a longer string fail with InvalidArgument and different messages.
key_value_result(body, result) ==
    IF has(body, "value") /\ is_string(get(body, "value"))
    THEN CASE Len(get(body, "value").s) = 1 ->
                result = Ok([value |-> get(body, "value").s])
           [] Len(get(body, "value").s) = 0 ->
                /\ ~result.ok
                /\ result.status = "InvalidArgument"
                /\ Mentions(result.msg, "empty string")
                /\ ~Mentions(result.msg, "multiple characters")
           [] OTHER ->
                /\ ~result.ok
                /\ result.status = "InvalidArgument"
                /\ Mentions(result.msg, "multiple characters")
                /\ ~Mentions(result.msg, "empty string")
    ELSE ~result.ok

KeyValueOneChar ==
    op \in {"KeyUpAction::from_json", "KeyDownAction::from_json"}
        => key_value_result(input, output)

KeyValueOneCharReached ==
    /\ op = "KeyDownAction::from_json"
    /\ has(input, "value")
    /\ get(input, "value") = JStr("ab")
    /\ ~output.ok
    /\ Mentions(output.msg, "multiple characters")

\* C11: a pointer sequence with no "parameters" key, or whose "parameters"
\* object has no "pointerType" key, decodes as it does with pointerType mouse
\* spelled out: successfully, with pointer type mouse, whatever its items.
mouse_parameters == JObj(entry("pointerType", JStr("mouse")))

no_pointer_type(body) ==
    /\ is_object(body)
    /\ has(body, "type")
    /\ get(body, "type") = JStr("pointer")
    /\ \/ ~has(body, "parameters")
       \/ /\ is_object(get(body, "parameters"))
          /\ ~has(get(body, "parameters"), "pointerType")

same_as_mouse(result, spelled_out) ==
    spelled_out.ok
        => /\ result = spelled_out
           /\ result.ok
           /\ result.val.actions.type = "Pointer"
           /\ result.val.actions.parameters.pointer_type = "Mouse"

AllowedItems(sequence_type) ==
    CASE sequence_type = "none" -> {"pause"}
      [] sequence_type = "key" -> {"pause", "keyUp", "keyDown"}
      [] sequence_type = "pointer" ->
           {"pause", "pointerUp", "pointerDown", "pointerMove", "pointerCancel"}

typed_sequence(body) ==
    /\ is_object(body)
    /\ has(body, "type")
    /\ get(body, "type") \in {JStr("none"), JStr("key"), JStr("pointer")}
    /\ has(body, "actions")
    /\ is_array(get(body, "actions"))

allowed_item(sequence_type, item) ==
    /\ is_object(item)
    /\ has(item, "type")
    /\ is_string(get(item, "type"))
    /\ get(item, "type").s \in AllowedItems(sequence_type)

\* The name of a decoded item, as its "type" string.
item_name(item) ==
    CASE item.item = "General" -> "pause"
      [] item.item = "Key" -> IF item.keyaction.key = "Up" THEN "keyUp" ELSE "keyDown"
      [] item.item = "Pointer" ->
           CASE item.pointeraction.pointer = "Up" -> "pointerUp"
             [] item.pointeraction.pointer = "Down" -> "pointerDown"
             [] item.pointeraction.pointer = "Move" -> "pointerMove"
             [] item.pointeraction.pointer = "Cancel" -> "pointerCancel"

plain_pauses(body) ==
    /\ ~has(body, "id")
    /\ ~has(body, "parameters")
    /\ \A i \in 1..Len(get(body, "actions").a) :
          get(body, "actions").a[i] = JObj(entry("type", JStr("pause")))

items_allowed(body, result) ==
    /\ result.ok
          => /\ Len(result.val.actions.actions) = Len(get(body, "actions").a)
             /\ \A i \in 1..Len(get(body, "actions").a) :
                   /\ allowed_item(get(body, "type").s, get(body, "actions").a[i])
                   /\ item_name(result.val.actions.actions[i])
                         = get(get(body, "actions").a[i], "type").s
    /\ (\E i \in 1..Len(get(body, "actions").a) :
            ~allowed_item(get(body, "type").s, get(body, "actions").a[i]))
          => ~result.ok /\ result.status = "InvalidArgument"
    /\ plain_pauses(body) => result.ok

AllowedItemSet ==
    (op = "ActionSequence::from_json" /\ typed_sequence(input))
        => items_allowed(input, output)

AllowedItemSetReached ==
    /\ op = "ActionSequence::from_json"
    /\ typed_sequence(input)
    /\ get(input, "type") = JStr("key")
    /\ Len(get(input, "actions").a) = 2
    /\ allowed_item("key", get(input, "actions").a[1])
    /\ allowed_item("pointer", get(input, "actions").a[2])
    /\ ~allowed_item("key", get(input, "actions").a[2])
    /\ ~output.ok
    /\ output.status = "InvalidArgument"

\* C19: AddCookieParameters::from_json reads name, value, path, domain,
\* expiry, secure and httpOnly only from the object under "cookie", whatever
\* fields of those names the top level has; name and value are required
\* strings; secure and httpOnly are false, and path, domain and expiry None,
\* when absent.
absent_or(data, key, types) == has(data, key) => get(data, key).t \in types

well_formed_cookie(data) ==
    /\ has(data, "name") /\ is_string(get(data, "name"))
    /\ has(data, "value") /\ is_string(get(data, "value"))
    /\ absent_or(data, "path", {"str"})
    /\ absent_or(data, "domain", {"str"})
    /\ has(data, "expiry") => is_u64(get(data, "expiry"))
    /\ absent_or(data, "secure", {"bool"})
    /\ absent_or(data, "httpOnly", {"bool"})

cookie_of(data) ==
    [name |-> get(data, "name").s,
     value |-> get(data, "value").s,
     path |-> IF has(data, "path") THEN Some(get(data, "path").s) ELSE None,
     domain |-> IF has(data, "domain") THEN Some(get(data, "domain").s) ELSE None,
     expiry |-> IF has(data, "expiry") THEN Some(Date_new(get(data, "expiry").n)) ELSE None,
     secure |-> IF has(data, "secure") THEN get(data, "secure").b ELSE FALSE,
     httpOnly |-> IF has(data, "httpOnly") THEN get(data, "httpOnly").b ELSE FALSE]

cookie_read(data, result) ==
    IF well_formed_cookie(data)
    THEN result = Ok(cookie_of(data))
    ELSE ~result.ok

CookieNested ==
    (/\ op = "AddCookieParameters::from_json"
     /\ is_object(input)
     /\ has(input, "cookie")
     /\ is_object(get(input, "cookie")))
        => cookie_read(get(input, "cookie"), output)

CookieNestedReached ==
    /\ op = "AddCookieParameters::from_json"
    /\ has(input, "cookie")
    /\ has(input, "secure")
    /\ get(input, "name") = JStr("top")
    /\ get(input, "cookie") = JObj([name |-> JStr("a"), value |-> JStr("a")])
    /\ output.ok
    /\ output.val.name = "a"
    /\ output.val.secure = FALSE
    /\ output.val.path = None

\* C20: PointerOrigin::from_json attempts the element-reference decode on
\* any object. As amended: an object whose reserved key holds a string
\* decodes to PointerOrigin::Element of that string, whatever other keys it
\* has; an object without the reserved key, or with a reserved key that
\* holds anything but a string, fails with InvalidArgument.
ElementOriginNeedsString ==
    (op = "PointerOrigin::from_json" /\ is_object(input))
        => IF has(input, ELEMENT_KEY) /\ is_string(get(input, ELEMENT_KEY))
           THEN output = Ok(PointerOrigin_Element(WebElement_new(get(input, ELEMENT_KEY).s)))
           ELSE ~output.ok /\ output.status = "InvalidArgument"

ElementOriginNeedsStringReached ==
    /\ op = "PointerOrigin::from_json"
    /\ has(input, ELEMENT_KEY)
    /\ has(input, "other")
    /\ output.ok
    /\ output.val = PointerOrigin_Element(WebElement_new("e1"))

\* C20 as stated: the decode of an object fails only if the reserved key is
\* absent, so every object that has the key decodes to PointerOrigin::Element.
ElementOriginNeedsKeyOnly ==
    (op = "PointerOrigin::from_json" /\ is_object(input))
        => /\ output.ok <=> has(input, ELEMENT_KEY)
           /\ output.ok => output.val.origin = "Element"

HttpOp == "WebDriverMessage::from_http"

BodyOp == "WebDriverMessage::decode_body"

\* C13: when the body is not required, decode_body does not parse the text
\* and does not fail, and from_http returns what it returns for the empty
\* text: the result does not depend on the raw body.
BodyNotRequiredIgnored ==
    /\ (op = BodyOp /\ ~input.requires_body) => output = Ok(JNull)
    /\ (op = HttpOp /\ ~input.requires_body)
           => output = from_http(input.match_type, input.params, "", FALSE)

BodyNotRequiredIgnoredReached ==
    /\ op = HttpOp
    /\ ~input.requires_body
    /\ input.raw_body = "{\"url\":}"
    /\ input.match_type.tag = "IsDisplayed"
    /\ "elementId" \in DOMAIN input.params
    /\ output.ok
    /\ output.val.command = [command |-> "IsDisplayed", element |-> WebElement_new("e1")]

\* C14: when the body is required, decode_body succeeds exactly on the texts
\* that are JSON with an object at top level; JSON of another top-level type
\* is InvalidArgument, and a syntax error is InvalidArgument with the line
\* and the column in a diagnostic of its own, outside the message.
has_diagnostic(result) ==
    /\ "stack" \in DOMAIN result
    /\ Mentions(result.stack, "Syntax error at :")
    /\ ~Mentions(result.msg, "Syntax error")

body_result(raw_body, result) ==
    /\ raw_body \in ObjectTexts => result.ok /\ is_object(result.val)
    /\ raw_body \in OtherJsonTexts
           => /\ ~result.ok
              /\ result.status = "InvalidArgument"
              /\ "stack" \notin DOMAIN result
    /\ raw_body \in BrokenTexts
           => /\ ~result.ok
              /\ result.status = "InvalidArgument"
              /\ has_diagnostic(result)
    /\ raw_body = "{\n\"url\" 1}" => Mentions(result.stack, ":2:")
    /\ raw_body = "[1,\n\n 2" => Mentions(result.stack, ":3:")

RequiredBodyIsObject ==
    (op = BodyOp /\ input.requires_body) => body_result(input.raw_body, output)

RequiredBodyIsObjectReached ==
    /\ op = BodyOp
    /\ input.requires_body
    /\ input.raw_body = "{\n\"url\" 1}"
    /\ ~output.ok
    /\ output.msg = "Failed to decode request as JSON: {\n\"url\" 1}"
    /\ output.stack = "Syntax error at :2:7"

\* C15: an element-scoped route without the elementId capture. As amended:
\* whenever the body decodes (it is not required, or the text is a JSON
\* object, whatever its fields), from_http returns InvalidArgument "Missing
\* elementId parameter"; a required body that does not decode is reported
\* first.
ElementRoutes ==
    {"FindElementElement", "FindElementElements", "IsDisplayed", "IsSelected",
     "GetElementAttribute", "GetElementProperty", "GetCSSValue", "GetElementText",
     "GetElementTagName", "GetElementRect", "IsEnabled", "ElementClick",
     "ElementTap", "ElementClear", "ElementSendKeys", "TakeElementScreenshot"}

no_element(request) ==
    /\ request.match_type.tag \in ElementRoutes
    /\ "elementId" \notin DOMAIN request.params

body_decodes(request) ==
    ~request.requires_body \/ request.raw_body \in ObjectTexts

missing_element(result) ==
    result = Err("InvalidArgument", "Missing elementId parameter")

MissingElementAfterBody ==
    (op = HttpOp /\ no_element(input))
        => IF body_decodes(input)
           THEN missing_element(output)
           ELSE output = decode_body(input.raw_body, input.requires_body)

MissingElementAfterBodyReached ==
    /\ op = HttpOp
    /\ no_element(input)
    /\ input.match_type.tag = "ElementSendKeys"
    /\ input.requires_body
    /\ input.raw_body = "{\"script\":2}"
    /\ missing_element(output)

\* C15 as stated: the missing capture is reported whatever the body text and
\* the body-required flag are.
MissingElementWhateverBody ==
    (op = HttpOp /\ no_element(input)) => missing_element(output)

\* C16: on success the command is the one of the route tag, with the two
\* position routes and the two size routes giving the rect commands; a route
\* without parameters gives its command for every body that reached the
\* match, whatever that body holds.
variant_of(tag) ==
    CASE tag \in {"GetWindowPosition", "GetWindowSize"} -> "GetWindowRect"
      [] tag \in {"SetWindowPosition", "SetWindowSize"} -> "SetWindowRect"
      [] OTHER -> tag

ParameterlessRoutes ==
    {"DeleteSession", "GetCurrentUrl", "GoBack", "GoForward", "Refresh", "GetTitle",
     "GetPageSource", "GetWindowHandle", "GetWindowHandles", "CloseWindow",
     "GetTimeouts", "GetWindowRect", "GetWindowPosition", "GetWindowSize",
     "MaximizeWindow", "SwitchToParentFrame", "GetActiveElement", "GetCookies",
     "DeleteCookies", "ReleaseActions", "DismissAlert", "AcceptAlert",
     "GetAlertText", "TakeScreenshot", "Status"}

RouteSelectsCommand ==
    (op = HttpOp /\ input.match_type.tag \in RouteTags)
        => /\ output.ok => output.val.command.command = variant_of(input.match_type.tag)
           /\ (input.match_type.tag \in ParameterlessRoutes /\ body_decodes(input))
                  => /\ output.ok
                     /\ output.val.command = [command |-> variant_of(input.match_type.tag)]

RouteSelectsCommandReached ==
    /\ op = HttpOp
    /\ input.match_type.tag = "GetWindowSize"
    /\ input.requires_body
    /\ input.raw_body = "{\"script\":2}"
    /\ output.ok
    /\ output.val.command = [command |-> "GetWindowRect"]

\* C17: the session id of the message is the sessionId capture, None when
\* the URL has none; the capture changes nothing else: the call succeeds or
\* fails, with the same error, as it does without the capture.
without(params, key) == [k \in DOMAIN params \ {key} |-> params[k]]

session_id_of(params) ==
    IF "sessionId" \in DOMAIN params THEN Some(params["sessionId"]) ELSE None

same_outcome(result, other) ==
    IF result.ok THEN other.ok ELSE result = other

SessionIdFromCapture ==
    op = HttpOp
        => /\ output.ok => output.val.session_id = session_id_of(input.params)
           /\ same_outcome(output,
                           from_http(input.match_type, without(input.params, "sessionId"),
                                     input.raw_body, input.requires_body))

SessionIdFromCaptureReached ==
    /\ op = HttpOp
    /\ input.match_type.tag = "Get"
    /\ input.params = << >>
    /\ input.requires_body
    /\ output.ok
    /\ output.val.session_id = None
    /\ output.val.command.parameters = [url |-> "a"]

\* C18: on an extension route whose body decodes, from_http returns the
\* outcome of the injected decoder applied to the same captures and the
\* decoded body: its command in a message with the session id, or its error.
decoded_body(request) ==
    IF request.requires_body THEN from_str(request.raw_body).val ELSE JNull

delegated(request, outcome, result) ==
    IF outcome.ok
    THEN result = Ok([session_id |-> session_id_of(request.params), command |-> outcome.val])
    ELSE result = outcome

ExtensionDelegates ==
    (op = HttpOp /\ input.match_type.tag = "Extension" /\ body_decodes(input))
        => delegated(input,
                     extension_command(input.match_type.extension, input.params,
                                       decoded_body(input)),
                     output)

ExtensionDelegatesReached ==
    /\ op = HttpOp
    /\ input.match_type = [tag |-> "Extension", extension |-> "keep"]
    /\ input.requires_body
    /\ input.raw_body = "{\"script\":2}"
    /\ DOMAIN input.params = {"sessionId", "name"}
    /\ output.ok
    /\ output.val.session_id = Some("s1")
    /\ output.val.command.extension =
           [params |-> input.params, body_data |-> JObj([script |-> JInt(2)])]

\* C21: LocatorStrategy::from_json accepts exactly the four strings "css
\* selector", "link text", "partial link text" and "xpath", each giving its
\* strategy, and rejects every other string and every value that is not a
\* string with InvalidArgument; the wire form of each of the four strategies
\* decodes to that strategy.
wire_strategy(text) ==
    CASE text = "css selector" -> "CSSSelector"
      [] text = "link text" -> "LinkText"
      [] text = "partial link text" -> "PartialLinkText"
      [] text = "xpath" -> "XPath"
      [] OTHER -> "none"

strategy_result(body, result) ==
    IF is_string(body) /\ wire_strategy(body.s) # "none"
    THEN result = Ok(wire_strategy(body.s))
    ELSE ~result.ok /\ result.status = "InvalidArgument"

LocatorStrategyClosed ==
    /\ op = "LocatorStrategy::from_json" => strategy_result(input, output)
    /\ op = "LocatorStrategy::to_value"
           => /\ output.decoded = Ok(input.strategy)
              /\ wire_strategy(output.encoded.s) = input.strategy

LocatorStrategyClosedReached ==
    /\ op = "LocatorStrategy::to_value"
    /\ input.strategy = "PartialLinkText"
    /\ output.encoded = JStr("partial link text")
    /\ output.decoded = Ok("PartialLinkText")

\* C22: the first violated constraint wins. A body whose "actions" array has
\* invalid sequences fails with the error of the earliest invalid sequence,
\* and a sequence whose header is valid and whose items are not fails with
\* the error of its earliest invalid item; the error is that one error.
earliest(bad) == CHOOSE i \in bad : \A j \in bad : i <= j

invalid_chains(chains) ==
    {i \in 1..Len(chains) : ~ActionSequence_from_json(chains[i]).ok}

invalid_items(sequence_type, items) ==
    {i \in 1..Len(items) : ~item_from_json(sequence_type, items[i]).ok}

first_chain_error(chains, bad, result) ==
    IF bad = {} THEN result.ok
    ELSE result = ActionSequence_from_json(chains[earliest(bad)])

first_item_error(sequence_type, items, bad, result) ==
    IF bad = {} THEN result.ok
    ELSE result = item_from_json(sequence_type, items[earliest(bad)])

valid_header(body) ==
    /\ typed_sequence(body)
    /\ has(body, "id") => is_string(get(body, "id"))
    /\ (get(body, "type").s = "pointer" /\ has(body, "parameters"))
           => PointerActionParameters_from_json(get(body, "parameters")).ok

FirstViolationWins ==
    /\ (op = "ActionsParameters::from_json" /\ has(input, "actions")
            /\ is_array(get(input, "actions")))
           => first_chain_error(get(input, "actions").a,
                                invalid_chains(get(input, "actions").a), output)
    /\ (op = "ActionSequence::from_json" /\ valid_header(input))
           => first_item_error(get(input, "type").s, get(input, "actions").a,
                               invalid_items(get(input, "type").s, get(input, "actions").a),
                               output)

FirstViolationWinsReached ==
    /\ op = "ActionsParameters::from_json"
    /\ has(input, "actions")
    /\ is_array(get(input, "actions"))
    /\ invalid_chains(get(input, "actions").a) = {1, 2}
    /\ ActionSequence_from_json(get(input, "actions").a[1])
           # ActionSequence_from_json(get(input, "actions").a[2])
    /\ output = Err("InvalidArgument", "Invalid action type")

\* C23: the "type" of a sequence is validated against none, key and pointer
\* before "id" is read: a sequence with an unknown type literal and an id
\* that is not a string fails with the invalid-type error, not the id error.
unknown_type(body) ==
    /\ is_object(body)
    /\ has(body, "type")
    /\ is_string(get(body, "type"))
    /\ get(body, "type").s \notin {"none", "key", "pointer"}

bad_id(body) == has(body, "id") /\ ~is_string(get(body, "id"))

TypeBeforeId ==
    (op = "ActionSequence::from_json" /\ unknown_type(input) /\ bad_id(input))
        => output = Err("InvalidArgument", "Invalid action type")

\* C24: in a pointer sequence the parameters are decoded before the items:
\* when "parameters" is malformed and the "actions" value, or one of its
\* items, is malformed too, the error is the one of the parameters.
pointer_sequence(body) ==
    /\ is_object(body)
    /\ has(body, "type")
    /\ get(body, "type") = JStr("pointer")
    /\ has(body, "id") => is_string(get(body, "id"))

malformed_parameters(body) ==
    /\ has(body, "parameters")
    /\ ~PointerActionParameters_from_json(get(body, "parameters")).ok

malformed_actions(body) ==
    /\ has(body, "actions")
    /\ \/ ~is_array(get(body, "actions"))
       \/ invalid_items("pointer", get(body, "actions").a) # {}

ParametersBeforeActions ==
    (/\ op = "ActionSequence::from_json"
     /\ pointer_sequence(input)
     /\ malformed_parameters(input)
     /\ malformed_actions(input))
        => output = PointerActionParameters_from_json(get(input, "parameters"))

\* C25: numeric action fields are checked by signedness. The duration of a
\* pause and of a pointerMove and the button of a pointerUp and a pointerDown
\* accept every non-negative integer and reject every negative one; x and y
\* of a pointerMove accept negative, zero and positive integers; a value that
\* is not an integer is InvalidArgument in each of these fields.
integer(v) == v.t = "num" /\ v.k = "int"

unsigned_ok(body, key) == ~has(body, key) \/ (integer(get(body, key)) /\ get(body, key).n >= 0)

signed_ok(body, key) == ~has(body, key) \/ integer(get(body, key))

read(body, key) == IF has(body, key) THEN Some(get(body, key).n) ELSE None

rejected(result) == ~result.ok /\ result.status = "InvalidArgument"

pause_checked(body, result) ==
    IF unsigned_ok(body, "duration")
    THEN result.ok /\ (has(body, "duration") => result.val.duration = get(body, "duration").n)
    ELSE rejected(result)

button_checked(body, result) ==
    IF has(body, "button") /\ unsigned_ok(body, "button")
    THEN result = Ok([button |-> get(body, "button").n])
    ELSE rejected(result)

move_checked(body, result) ==
    IF unsigned_ok(body, "duration") /\ signed_ok(body, "x") /\ signed_ok(body, "y")
    THEN /\ result.ok
         /\ result.val.duration = read(body, "duration")
         /\ result.val.x = read(body, "x")
         /\ result.val.y = read(body, "y")
    ELSE rejected(result)

NumericSignedness ==
    /\ op = "PauseAction::from_json" => pause_checked(input, output)
    /\ op \in {"PointerUpAction::from_json", "PointerDownAction::from_json"}
           => button_checked(input, output)
    /\ op = "PointerMoveAction::from_json" => move_checked(input, output)

NumericSignednessReached ==
    /\ op = "PointerMoveAction::from_json"
    /\ input = JObj([duration |-> JInt(2), x |-> JInt(-2), y |-> JInt(0)])
    /\ output.ok
    /\ output.val.x = Some(-2)
    /\ output.val.duration = Some(2)

\* C26: no panic on user input. For every value given to
\* ActionsParameters::from_json or ActionSequence::from_json, and every body
\* that reaches the PerformActions route, the result is a decoded value or a
\* WebDriverError: the expect calls and the panic arm of
\* ActionsType::from_json are not reached.
ErrorStatuses == {"InvalidArgument", "UnknownError", "NoSuchFrame", "UnableToSetCookie"}

value_or_error(result) == result.ok \/ result.status \in ErrorStatuses

NoPanicOnInput ==
    /\ op \in {"ActionsParameters::from_json", "ActionSequence::from_json"}
           => value_or_error(output)
    /\ (op = HttpOp /\ input.match_type.tag = "PerformActions") => value_or_error(output)

NoPanicOnInputReached ==
    /\ op = "ActionSequence::from_json"
    /\ has(input, "type")
    /\ get(input, "type") = JStr("bogus")
    /\ has(input, "actions")
    /\ ~has(input, "id")
    /\ output = Err("InvalidArgument", "Invalid action type")

----------------------------------------------------------------------------
\* C27: the derived decoder of actions.rs and the hand-written decoder of
\* command.rs accept exactly the "type" literals none, key and pointer, and
\* give each the same ActionsType variant (Null, Key, Pointer).
SequenceLiterals == {"none", "key", "pointer"}

discriminant(body) == get(body, "type").s

plain_sequence(body) ==
    /\ ~has(body, "id")
    /\ ~has(body, "parameters")
    /\ has(body, "actions")
    /\ get(body, "actions") = JArr(<< >>)

SameDiscriminant ==
    (/\ op = "ActionSequence::deserialize"
     /\ is_object(input)
     /\ has(input, "type")
     /\ is_string(get(input, "type")))
        => LET manual == ActionSequence_from_json(input)
           IN  /\ discriminant(input) \notin SequenceLiterals
                    => ~output.ok /\ ~manual.ok
               /\ (discriminant(input) \in SequenceLiterals /\ plain_sequence(input))
                    => output.ok /\ manual.ok
               /\ (output.ok /\ manual.ok)
                    => output.val.actions.type = manual.val.actions.type

----------------------------------------------------------------------------
\* C28: from_http decodes the body first, then reads the captures the route
\* requires, then validates the parameters: a request whose body does not
\* decode and which lacks a required capture gets the body's error, and a
\* request which lacks a required capture and whose body object fails the
\* route's parameter decoder gets the missing-capture error.
required_captures(tag) ==
    CASE tag \in {"GetElementAttribute", "GetElementProperty"} -> {"elementId", "name"}
      [] tag = "GetCSSValue" -> {"elementId", "propertyName"}
      [] tag \in ElementRoutes -> {"elementId"}
      [] tag \in {"GetNamedCookie", "DeleteCookie"} -> {"name"}
      [] OTHER -> {}

lacks_capture(request) ==
    \E name \in required_captures(request.match_type.tag) :
        name \notin DOMAIN request.params

body_of(request) == decode_body(request.raw_body, request.requires_body)

fails_validation(request) ==
    /\ body_of(request).ok
    /\ is_object(body_of(request).val)
    /\ CASE request.match_type.tag \in {"FindElementElement", "FindElementElements"} ->
              ~LocatorParameters_from_json(body_of(request).val).ok
         [] request.match_type.tag = "ElementSendKeys" ->
              ~SendKeysParameters_from_json(body_of(request).val).ok
         [] OTHER -> FALSE

capture_error(result) ==
    /\ ~result.ok
    /\ result.status = "InvalidArgument"
    /\ Mentions(result.msg, "Missing")
    /\ \E name \in CaptureNames : Mentions(result.msg, name)
    /\ Mentions(result.msg, "parameter")
    /\ ~Mentions(result.msg, "'using'")
    /\ ~Mentions(result.msg, "'text'")

CheckOrder ==
    (op = HttpOp /\ lacks_capture(input))
        => /\ ~body_of(input).ok => output = body_of(input)
           /\ fails_validation(input) => capture_error(output)

CheckOrderReached ==
    /\ op = HttpOp
    /\ lacks_capture(input)
    /\ input.requires_body
    /\ fails_validation(input)
    /\ capture_error(output)

----------------------------------------------------------------------------
\* C29: on a route that selects a parameter decoder, from_http with
\* requires_body = false never returns a command: the body is Null, and the
\* decoder, once the captures of the route are read, fails with a "not an
\* object" error of kind UnknownError or InvalidArgument.
DecoderRoutes ==
    {"NewSession", "Get", "SetTimeouts", "SetWindowRect", "SetWindowPosition",
     "SetWindowSize", "SwitchToWindow", "SwitchToFrame", "FindElement",
     "FindElements", "FindElementElement", "FindElementElements",
     "ElementSendKeys", "ExecuteScript", "ExecuteAsyncScript", "AddCookie",
     "PerformActions", "SendAlertText"}

not_an_object(result) ==
    /\ ~result.ok
    /\ result.status \in {"UnknownError", "InvalidArgument"}
    /\ Mentions(result.msg, "not an object")

NoBodyNoCommandStrict ==
    (/\ op = HttpOp
     /\ input.match_type.tag \in DecoderRoutes
     /\ ~input.requires_body)
        => not_an_object(output)

NoBodyNoCommand ==
    (/\ op = HttpOp
     /\ input.match_type.tag \in DecoderRoutes
     /\ ~input.requires_body)
        => /\ ~output.ok
           /\ ~lacks_capture(input) => not_an_object(output)

NoBodyNoCommandReached ==
    /\ op = HttpOp
    /\ input.match_type.tag = "PerformActions"
    /\ ~input.requires_body
    /\ input.raw_body = value_to_string(FullBody)
    /\ not_an_object(output)

----------------------------------------------------------------------------
\* C30: a successful ActionsParameters::from_json gives one ActionSequence
\* for each element of the input "actions", in the same order, and each
\* sequence holds one item for each element of its own "actions" array, in
\* the same order: nothing is dropped, duplicated or reordered.
items_kept(sequence_body, sequence) ==
    LET items == get(sequence_body, "actions").a
        decoded == sequence.actions.actions
    IN  /\ Len(decoded) = Len(items)
        /\ \A j \in 1..Len(items) :
              item_from_json(get(sequence_body, "type").s, items[j]) = Ok(decoded[j])

chains_kept(chains, sequences) ==
    /\ Len(sequences) = Len(chains)
    /\ \A i \in 1..Len(chains) :
          /\ ActionSequence_from_json(chains[i]) = Ok(sequences[i])
          /\ items_kept(chains[i], sequences[i])

OrderAndLengthKept ==
    /\ (op = "ActionsParameters::from_json" /\ output.ok)
           => chains_kept(get(input, "actions").a, output.val.actions)
    /\ (op = "ActionSequence::from_json" /\ output.ok)
           => items_kept(input, output.val)

OrderAndLengthKeptReached ==
    /\ op = "ActionsParameters::from_json"
    /\ output.ok
    /\ Len(output.val.actions) = 2
    /\ output.val.actions[1] # output.val.actions[2]
    /\ \E i \in 1..2 :
          /\ Len(output.val.actions[i].actions.actions) = 2
          /\ output.val.actions[i].actions.actions[1]
                 # output.val.actions[i].actions.actions[2]
====
